---- MODULE Spec2Model ----
(***************************************************************************)
(* gopost: the synchronization engine of internal/integration/service.go   *)
(* (Run, runOnce, ProcessCity, FindCrimeArticles, isCrimeRelated) and the  *)
(* duplicate ledger of internal/dedup/tracker.go, with the search backend, *)
(* the key-value store, the destination API, the ticker, the clock and the *)
(* cancellation signal as the environment.                                 *)
(*                                                                         *)
(* Time is counted in hours.  Strings are sequences of one-character       *)
(* strings.  Article identifiers are numbers; EmptyID is the empty string. *)
(***************************************************************************)
EXTENDS Integers, Sequences, FiniteSets, TLC

\* ---------------------------------------------------------------- bounds
NumCities == 2          \* len(config.Cities)
MaxDocs == 2            \* documents the search backend can hold
MaxEnvSteps == 1        \* clock advances and documents indexed in one behaviour
RateLimitRPS == 1       \* config.Service.RateLimitRPS (rate and burst)
MaxLen == 2             \* length of the titles, bodies and keywords of FilterSpec
MaxKeywords == 1        \* length of the keyword lists of FilterSpec

\* ------------------------------------------------------ program constants
HoursPerDay == 24
DaysPerYear == 365
QuerySize == 100
ProbeSize == 1
EmptyID == 0
DefaultRateLimitRPS == 10
DefaultCheckInterval == 5
DefaultDedupTTL == 8760

Cities == 1..NumCities
\* the city whose consecutive passes are compared: the first one
watched == CHOOSE c \in Cities : \A o \in Cities : c <= o
Docs == 1..MaxDocs
LookbackChoices == {-1, 0, 1}

\* --------------------------------------------------------------- strings
Chars == {"a", "b", "c", "A", "B", "C", " "}

ToLowerChar(ch) ==
    CASE ch = "A" -> "a"
      [] ch = "B" -> "b"
      [] ch = "C" -> "c"
      [] OTHER -> ch

\* strings.ToLower
ToLower(s) == [i \in 1..Len(s) |-> ToLowerChar(s[i])]

\* strings.Contains: the empty substring occurs in every string
Contains(s, sub) ==
    \E i \in 1..(Len(s) - Len(sub) + 1) : SubSeq(s, i, i + Len(sub) - 1) = sub

\* config.Service.CrimeKeywords
CrimeKeywords == << <<"a", "B">>, <<"c", "c">> >>

\* ------------------------------------------------------------- documents
\* The documents the backend can hold; all of them match the backend's
\* tokenised keyword query.  Every third document, from the first, carries no
\* id of its own in _source.  Even documents contain no keyword as a
\* substring: their words "c" and "c" sit in the title and in the body.
DocRowID(d) == 100 + d
DocSourceID(d) == IF d % 3 = 1 THEN EmptyID ELSE d
DocTitle(d) == IF d % 2 = 0 THEN <<"c">> ELSE <<"A", "b">>
DocBody(d) == IF d % 2 = 0 THEN <<"C">> ELSE <<"b">>

\* one element of hits.hits of the search response
Hit(d, published) ==
    [rowID |-> DocRowID(d),
     source |-> [ID |-> DocSourceID(d), Title |-> DocTitle(d),
                 Content |-> DocBody(d), PublishedAt |-> published]]

\* config.Cities[c]: even cities carry an index override
CityConfig(c) ==
    [Name |-> <<"city", c>>,
     Index |-> IF c % 2 = 0 THEN <<"override", c>> ELSE <<>>,
     GroupID |-> <<"group", c>>]

\* ----------------------------------------------------------------- state
VARIABLES
    \* Service
    lastCheckTS,    \* s.lastCheckTS
    lookbackHours,  \* s.config.Service.LookbackHours
    keywords,       \* s.config.Service.CrimeKeywords
    contentType,    \* s.config.Service.ContentType
    tokens,         \* s.limiter: tokens in the bucket
    \* Run / runOnce / ProcessCity control and locals
    pc,             \* position of the Run goroutine
    cityIdx,        \* runOnce: index of the range loop over s.config.Cities
    articles,       \* ProcessCity: articles
    itemIdx,        \* ProcessCity: index of the range loop over articles
    posted, skipped, errors,  \* ProcessCity counters
    runResult,      \* what Run returned
    \* environment
    now,            \* time.Now()
    ticks,          \* clock advances so far
    cancelled,      \* ctx.Done() is closed
    tickPending,    \* ticker.C holds a tick
    store,          \* the key-value store: key -> expiry instant
    index,          \* the search backend: collection -> set of [doc, published]
    sourceChanges,  \* documents indexed since start
    inRange,        \* the documents, by collection, that the range filter of a
                    \* traced search has let through
    \* observation
    itemTrace,      \* steps taken for the current item, with their outcomes
    visited,        \* cities ProcessCity was invoked for in this cycle
    cityErr,        \* cities whose ProcessCity returned an error this cycle
    wmWrites,       \* writes of lastCheckTS in this cycle
    wmReads,        \* values of lastCheckTS read by queries in this cycle
    lastMark,       \* id -> instant of the last successful MarkPosted since Clear
    cleared,        \* id -> whether the store held a live record for it, for the
                    \* id Clear succeeded for while the current item was at its
                    \* duplicate check, until its MarkPosted succeeds
    abortedBy,      \* city -> the call that made its ProcessCity return an
                    \* error this cycle
    reported,       \* cities whose ProcessCity logged its counts this cycle
    lastQuery,      \* the last search request of FindCrimeArticles
    probe,          \* outcome of the last diagnostic probe
    probeQuery,     \* the search request of the last diagnostic probe
    delivered,      \* ids published successfully in the current pass
    prevPass,       \* whether ProcessCity ran for the watched city, and what the
                    \* last such pass delivered
    srcChanged,     \* the collection to be searched changed since its last search
    rerun,          \* the current pass is the watched city's second invocation:
                    \* its source is unchanged and the ledger holds every
                    \* identifier the first one delivered
    liveAtCheck,    \* the identifier of the current item had a live record, by
                    \* lastMark, when HasPosted was called
    calls,          \* calls of PostArticle in the current pass
    grants,         \* calls of limiter.Wait that returned nil in the current pass
    sentReq,        \* the creation request PostArticle sent last and how it
                    \* was answered, until the next step of ProcessCity
    \* s.mu
    mu,             \* s.mu: the number of read locks held, whether the write
                    \* lock is held
    muAtCall,       \* s.mu when FindCrimeArticles last called the search backend
    \* main
    rawCfg,         \* the configuration file as read by config.Load
    bootEnv,        \* what fails at startup: the logger, a client, the ping
    dedupTTL        \* s.config.Service.DedupTTL

vars == <<lastCheckTS, lookbackHours, tokens, pc, cityIdx, articles, itemIdx,
          posted, skipped, errors, runResult, now, ticks, cancelled,
          tickPending, store, index, sourceChanges, itemTrace, visited,
          cityErr, wmWrites, wmReads, lastMark, lastQuery, probe,
          delivered, prevPass, srcChanged, rerun, liveAtCheck, keywords,
          cleared, abortedBy, reported, calls, grants, sentReq, rawCfg, bootEnv,
          dedupTTL, mu, muAtCall, contentType, probeQuery, inRange>>

cfgVars == <<lookbackHours, keywords, contentType, dedupTTL, rawCfg, bootEnv>>
svcVars == <<lastCheckTS, cfgVars, tokens>>
passVars == <<articles, itemIdx, posted, skipped, errors>>
ctlVars == <<pc, cityIdx, runResult>>
clockVars == <<now, ticks>>
srcVars == <<index, sourceChanges, srcChanged, inRange>>
cycleObs == <<visited, cityErr, abortedBy, reported, wmWrites, wmReads>>
fetchObs == <<lastQuery, probe, probeQuery, rerun, liveAtCheck>>
lockVars == <<mu, muAtCall>>

\* ------------------------------------------------------ dedup.Tracker
\* NewTracker: ttl
TrackerTTL == DaysPerYear * HoursPerDay

\* Tracker.key
TrackerKey(articleID) == <<"posted:article", articleID>>

\* the store's EXISTS: the number of the given keys that exist at instant t
StoreExists(st, k, t) == IF k \in DOMAIN st /\ st[k] > t THEN 1 ELSE 0

\* the store's SET with an expiry
StoreSet(st, k, expiry) ==
    [x \in DOMAIN st \cup {k} |-> IF x = k THEN expiry ELSE st[x]]

\* the store's DEL
StoreDel(st, k) == [x \in DOMAIN st \ {k} |-> st[x]]

\* the store dropping the keys whose expiry has passed at instant t
StoreExpire(st, t) == [x \in {k \in DOMAIN st : st[k] > t} |-> st[x]]

\* HasPosted with the comparison inverted: exists == 0
HasPosted_Inverted(st, articleID, t, storeErr) ==
    IF storeErr THEN FALSE
    ELSE StoreExists(st, TrackerKey(articleID), t) = 0

\* HasPosted failing closed: a store error reads as "already posted"
HasPosted_FailClosed(st, articleID, t, storeErr) ==
    IF storeErr THEN TRUE
    ELSE StoreExists(st, TrackerKey(articleID), t) = 1

\* Tracker.HasPosted: storeErr is the error of the existence query
HasPosted(st, articleID, t, storeErr) ==
    IF storeErr THEN FALSE
    ELSE StoreExists(st, TrackerKey(articleID), t) = 1

\* MarkPosted setting the key without a time-to-live in the future
MarkPosted_ZeroTTL(st, articleID, t, storeErr) ==
    IF storeErr THEN st
    ELSE StoreSet(st, TrackerKey(articleID), t)

\* Tracker.MarkPosted: the store after the call
MarkPosted(st, articleID, t, storeErr) ==
    IF storeErr THEN st
    ELSE StoreSet(st, TrackerKey(articleID), t + TrackerTTL)

\* MarkPosted swallowing the error of the set operation
MarkPostedErr_Swallowed(storeErr) == "nil"

\* Tracker.MarkPosted: the error it returns
MarkPostedErr(storeErr) == IF storeErr THEN "set_err" ELSE "nil"

\* Clear deleting a key built with another prefix than the tracker's
Clear_OtherPrefix(st, articleID, storeErr) ==
    IF storeErr THEN st ELSE StoreDel(st, <<"posted", articleID>>)

\* Tracker.Clear: the store after the call
Clear(st, articleID, storeErr) ==
    IF storeErr THEN st ELSE StoreDel(st, TrackerKey(articleID))

\* ------------------------------------------- Service.FindCrimeArticles
\* the query target derived from the name even with an index override
IndexName_IgnoresOverride(cityCfg) == cityCfg.Name \o <<"_articles">>

\* the query target: the city's index override, else <name>_articles
IndexName(cityCfg) ==
    IF cityCfg.Index = <<>> THEN cityCfg.Name \o <<"_articles">>
    ELSE cityCfg.Index

TargetNames == {IndexName(CityConfig(c)) : c \in Cities}

\* the range clause added whenever the lookback is not negative
RangeClause_NonNegative(lookback, watermark) ==
    IF lookback >= 0 THEN <<watermark>> ELSE <<>>

\* the range clause: present only with a positive lookback
RangeClause(lookback, watermark) ==
    IF lookback > 0 THEN <<watermark>> ELSE <<>>

\* the search request
BuildQuery(cityCfg, lookback, watermark) ==
    [target |-> IndexName(cityCfg),
     range |-> RangeClause(lookback, watermark),
     size |-> QuerySize]

\* the request of the diagnostic probe: match_all on the same index
ProbeQuery(cityCfg) ==
    [target |-> IndexName(cityCfg), range |-> <<>>, size |-> ProbeSize]

\* no search request
NoQuery == [target |-> <<>>, range |-> <<>>, size |-> 0]

\* the backend: the documents of a collection that a query matches
Matches(coll, query) ==
    {e \in coll : query.range = <<>> \/ e.published >= query.range[1]}

\* the newest entry of a non-empty set (ties broken by document number)
Newest(S) ==
    CHOOSE e \in S : \A f \in S :
        \/ e.published > f.published
        \/ e.published = f.published /\ e.doc >= f.doc

RECURSIVE SortDesc(_)
\* the backend: sort by published_date, descending
SortDesc(S) ==
    IF S = {} THEN <<>> ELSE <<Newest(S)>> \o SortDesc(S \ {Newest(S)})

\* the backend: the first n elements
Take(q, n) == SubSeq(q, 1, IF Len(q) < n THEN Len(q) ELSE n)

\* the backend's answer to a search request: total and capped, ordered hits
SearchResponse(idx, query) ==
    LET m == Matches(idx[query.target], query)
        sorted == Take(SortDesc(m), query.size)
    IN [total |-> Cardinality(m),
        hits |-> [i \in 1..Len(sorted) |-> Hit(sorted[i].doc, sorted[i].published)]]

\* the article of a hit taken as decoded, without the fallback
ArticleOf_NoFallback(hit) == hit.source

\* the article of a hit: the ID falls back to the backend's _id
ArticleOf(hit) ==
    IF hit.source.ID = EmptyID
    THEN [hit.source EXCEPT !.ID = hit.rowID]
    ELSE hit.source

ArticlesOf(hits) == [i \in 1..Len(hits) |-> ArticleOf(hits[i])]

SearchOutcomes == {"ok", "transport_err", "status_err", "decode_err"}

\* whether the diagnostic probe runs
ProbeRuns(total) == total = 0 /\ Len(keywords) > 0

\* isCrimeRelated comparing with the keyword as configured, not lower-cased
isCrimeRelated_KeywordAsIs(article) ==
    LET content == ToLower(article.Title \o <<" ">> \o article.Content)
    IN \E i \in 1..Len(keywords) : Contains(content, keywords[i])

\* ---------------------------------------------- Service.isCrimeRelated
isCrimeRelated(article) ==
    LET content == ToLower(article.Title \o <<" ">> \o article.Content)
    IN \E i \in 1..Len(keywords) : Contains(content, ToLower(keywords[i]))

\* ------------------------------------------------- drupal.Client.PostArticle
CsrfOutcomes == {"token", "transport_err", "bad_status", "read_err"}
PostOutcomes == {"transport_err", "status_ge_400_parsed", "status_ge_400_raw",
                 "status_lt_400_decoded", "status_lt_400_no_id",
                 "status_lt_400_malformed"}

\* PostArticle passing an error status whose body holds no structured error
\* on to the decoding of a success
PostArticleOK_OnlyStructuredErrors(csrf, resp) ==
    resp \in {"status_ge_400_raw", "status_lt_400_decoded", "status_lt_400_no_id"}

\* PostArticle returning the error of the token fetch
PostArticleOK_TokenRequired(csrf, resp) ==
    /\ csrf = "token"
    /\ resp \in {"status_lt_400_decoded", "status_lt_400_no_id"}

\* PostArticle's result: TRUE when it returns nil.  The token fetch does not
\* decide it; a body that decodes is accepted whatever it holds.
PostArticleOK(csrf, resp) ==
    resp \in {"status_lt_400_decoded", "status_lt_400_no_id"}

\* the request carrying the group of the first configured city, whatever the
\* city being processed
ArticleRequest_FirstCityGroup(article, cityCfg) ==
    [Title |-> article.Title,
     Body |-> article.Content,
     GroupID |-> CityConfig(watched).GroupID,
     ContentType |-> contentType]

\* content-type labels, as strings of characters; the default of config.Load
NodeArticle == <<"n", "o", "d", "e", "-", "-", "a", "r", "t", "i", "c", "l", "e">>
NodePage == <<"n", "o", "d", "e", "-", "-", "p", "a", "g", "e">>
ContentTypes == {NodeArticle, NodePage, <<"p", "a", "g", "e">>}

\* config.Load: an empty content type becomes "node--article"
ContentTypeOrDefault(ct) == IF ct = <<>> THEN NodeArticle ELSE ct

\* PostArticle: the endpoint URL, <base>/jsonapi/node/<resource>.  For a
\* label other than "node--article" the first five characters of the label
\* are compared with the six of "node--", and the label is cut after its
\* fifth character when they are equal.
Endpoint(ct) ==
    <<"base", "/jsonapi/node/",
      IF ct = NodeArticle THEN <<"a", "r", "t", "i", "c", "l", "e">>
      ELSE IF Len(ct) > 5 /\ SubSeq(ct, 1, 5) = <<"n", "o", "d", "e", "-", "-">>
           THEN SubSeq(ct, 6, Len(ct))
           ELSE ct>>

\* ProcessCity: the request handed to PostArticle
ArticleRequest(article, cityCfg) ==
    [Title |-> article.Title,
     Body |-> article.Content,
     GroupID |-> cityCfg.GroupID,
     ContentType |-> contentType]

\* PostArticle: the resource document built from the request
DrupalArticle(req) ==
    [type |-> req.ContentType,
     title |-> req.Title,
     body |-> req.Body,
     fieldGroupID |-> req.GroupID]

\* PostArticle: the creation request as sent, the X-CSRF-Token header being
\* set when the token was fetched, and the answer it got
SentRequest(req, csrf, resp) ==
    [endpoint |-> Endpoint(req.ContentType),
     payload |-> DrupalArticle(req),
     csrfHeader |-> (csrf = "token"),
     resp |-> resp]

\* the creation request as sent, its headers and its answer left unobserved
RequestOnly(req) ==
    [endpoint |-> Endpoint(req.ContentType),
     payload |-> DrupalArticle(req),
     csrfHeader |-> "unobserved",
     resp |-> "unobserved"]

\* no request sent
NoReq == [endpoint |-> <<>>, payload |-> <<>>, csrfHeader |-> FALSE,
         resp |-> "none"]

\* every id an article can carry
ArticleIDs == {ArticleOf(Hit(d, 0)).ID : d \in Docs}

\* ------------------------------------------------------------ config.Load
\* The configuration file as the program finds it: whether it can be read
\* and parsed, which required string is empty, and the numbers of the service
\* section.  Durations: the check interval in minutes, the time-to-live of
\* the duplicate records in hours.
RequiredStrings == {"elasticsearch.url", "drupal.url", "drupal.token", "redis.url"}

RawConfigs ==
    [file : {"ok", "unreadable", "unparsable"},
     missing : RequiredStrings \cup {"none"},
     RateLimitRPS : {-1, 0, RateLimitRPS},
     CheckInterval : {-1, 0, 1},
     LookbackHours : LookbackChoices,
     DedupTTL : {-1, 0, 1},
     Cities : {0, NumCities},
     cityFault : {"none", "name", "group_id"}]

\* Load: the defaults
WithDefaults(raw) ==
    [raw EXCEPT !.CheckInterval = IF @ = 0 THEN DefaultCheckInterval ELSE @,
                !.RateLimitRPS = IF @ = 0 THEN DefaultRateLimitRPS ELSE @,
                !.DedupTTL = IF @ = 0 THEN DefaultDedupTTL ELSE @]

\* Config.Validate: the error it returns
Validate(c) ==
    IF c.missing # "none" THEN c.missing
    ELSE IF c.RateLimitRPS <= 0 THEN "service.rate_limit_rps"
    ELSE IF c.CheckInterval <= 0 THEN "service.check_interval"
    ELSE IF c.DedupTTL < 0 THEN "service.dedup_ttl"
    ELSE IF c.Cities = 0 THEN "cities"
    ELSE IF c.cityFault # "none" THEN c.cityFault
    ELSE "nil"

\* config.Load: the error it returns
LoadErr(raw) ==
    IF raw.file = "unreadable" THEN "read config file"
    ELSE IF raw.file = "unparsable" THEN "parse config"
    ELSE IF Validate(WithDefaults(raw)) # "nil" THEN "invalid config"
    ELSE "nil"

\* a file that loads: nothing missing, the configured rate, the given
\* lookback and time-to-live, the rest left to the defaults
GoodRaw(lookback, ttl) ==
    [file |-> "ok", missing |-> "none", RateLimitRPS |-> RateLimitRPS,
     CheckInterval |-> 0, LookbackHours |-> lookback, DedupTTL |-> ttl,
     Cities |-> NumCities, cityFault |-> "none"]

\* what can fail between the load and the return of NewService
BootEnvs == {"ok", "logger", "elasticsearch_client", "drupal_client", "redis_ping"}

\* ------------------------------------------------------------------ Init
\* ------------------------------------------------------------ s.mu
\* sync.RWMutex: no lock is held
MuFree == [readers |-> 0, writer |-> FALSE]

\* RLock returns when no writer holds the lock
CanRLock(m) == ~m.writer
RLock(m) == [m EXCEPT !.readers = @ + 1]
RUnlock(m) == [m EXCEPT !.readers = @ - 1]

\* Lock returns when nobody holds the lock
CanLock(m) == m = MuFree
Lock(m) == [m EXCEPT !.writer = TRUE]
Unlock(m) == [m EXCEPT !.writer = FALSE]

\* getLastCheckTS without the deferred RUnlock
getLastCheckTS_KeepsLock(m, ts) ==
    [value |-> ts, held |-> RLock(m), mu |-> RLock(m)]

\* getLastCheckTS: the watermark is copied under the read lock, which the
\* deferred RUnlock releases as the function returns
getLastCheckTS(m, ts) ==
    [value |-> ts, held |-> RLock(m), mu |-> RUnlock(RLock(m))]

NoPass == [ran |-> FALSE, delivered |-> {}]

\* NewService has returned: the watermark is the start time minus the
\* lookback, the bucket is full.  The store may hold a record of an earlier
\* run; every collection holds the first document.
Init ==
    /\ lookbackHours \in LookbackChoices
    /\ keywords = CrimeKeywords
    /\ now = 0
    /\ ticks = 0
    /\ lastCheckTS = now - lookbackHours
    /\ tokens = RateLimitRPS
    /\ pc = "run"
    /\ cityIdx = 0
    /\ articles = <<>>
    /\ itemIdx = 0
    /\ posted = 0 /\ skipped = 0 /\ errors = 0
    /\ runResult = "none"
    /\ cancelled = FALSE
    /\ tickPending = FALSE
    /\ \E old \in SUBSET {DocRowID(1)} :
          store = [k \in {TrackerKey(id) : id \in old} |-> now + 1]
    /\ index = [t \in TargetNames |-> {[doc |-> 1, published |-> now]}]
    /\ sourceChanges = 0
    /\ srcChanged = FALSE
    /\ inRange = {}
    /\ itemTrace = <<>>
    /\ visited = <<>>
    /\ cityErr = {}
    /\ wmWrites = 0
    /\ wmReads = {}
    /\ lastMark = << >>
    /\ cleared = << >>
    /\ abortedBy = << >>
    /\ reported = {}
    /\ lastQuery = [target |-> <<>>, range |-> <<>>, size |-> 0]
    /\ probe = "none"
    /\ probeQuery = NoQuery
    /\ delivered = {}
    /\ prevPass = NoPass
    /\ rerun = FALSE
    /\ liveAtCheck = FALSE
    /\ calls = 0
    /\ grants = 0
    /\ mu = MuFree
    /\ muAtCall = MuFree
    /\ contentType = NodeArticle
    /\ sentReq = NoReq
    /\ rawCfg = GoodRaw(lookbackHours, 0)
    /\ bootEnv = "ok"
    /\ dedupTTL = WithDefaults(rawCfg).DedupTTL

\* ------------------------------------------------------- Run and runOnce
InCycle == pc \in {"city", "fetch", "item", "filter", "dedup", "throttle",
                   "publish", "mark", "watermark"}
InPass == pc \in {"item", "filter", "dedup", "throttle", "publish", "mark"}

\* runOnce is entered: the range loop over the cities starts
BeginCycle ==
    /\ pc' = "city"
    /\ cityIdx' = 1
    /\ visited' = <<>>
    /\ cityErr' = {}
    /\ abortedBy' = << >>
    /\ reported' = {}
    /\ wmWrites' = 0
    /\ wmReads' = {}

\* Run waiting for the first tick before its first cycle
RunStart_WaitsForTick ==
    /\ pc = "run"
    /\ pc' = "select"
    /\ UNCHANGED <<cityIdx, cycleObs>>
    /\ UNCHANGED <<svcVars, passVars, runResult, clockVars, cancelled,
                   tickPending, store, srcVars, itemTrace, lastMark, cleared,
                   fetchObs, delivered, calls, grants, sentReq, lockVars, prevPass>>

\* Run: the ticker is created and the first cycle is run at once
RunStart ==
    /\ pc = "run"
    /\ BeginCycle
    /\ UNCHANGED <<svcVars, passVars, runResult, clockVars, cancelled,
                   tickPending, store, srcVars, itemTrace, lastMark, cleared,
                   fetchObs, delivered, calls, grants, sentReq, lockVars, prevPass>>

\* runOnce advancing the watermark before every city
CityLoop_PerTenantWatermark ==
    /\ pc = "city"
    /\ IF cityIdx <= NumCities
       THEN /\ pc' = "fetch"
            /\ visited' = Append(visited, cityIdx)
            /\ lastCheckTS' = now
            /\ wmWrites' = wmWrites + 1
       ELSE /\ pc' = "watermark"
            /\ UNCHANGED <<visited, lastCheckTS, wmWrites>>
    /\ itemTrace' = <<>>
    /\ UNCHANGED <<cfgVars, tokens, passVars, cityIdx, runResult, clockVars,
                   cancelled, tickPending, store, srcVars, cityErr, abortedBy, reported, wmReads,
                   lastMark, cleared, fetchObs, delivered, calls, grants, sentReq, lockVars, prevPass>>

\* runOnce: the head of the loop over the cities; ProcessCity is invoked
\* for the next city, or the loop is left
CityLoop ==
    /\ pc = "city"
    /\ IF cityIdx <= NumCities
       THEN /\ pc' = "fetch"
            /\ visited' = Append(visited, cityIdx)
       ELSE /\ pc' = "watermark"
            /\ UNCHANGED visited
    /\ itemTrace' = <<>>
    /\ UNCHANGED <<svcVars, passVars, cityIdx, runResult, clockVars, cancelled,
                   tickPending, store, srcVars, cityErr, abortedBy, reported, wmWrites,
                   wmReads, lastMark, cleared, fetchObs, delivered, calls, grants, sentReq, lockVars, prevPass>>

\* runOnce advancing the watermark only when no city failed
WatermarkStep_OnlyOnSuccess ==
    /\ pc = "watermark"
    /\ IF cityErr = {}
       THEN /\ lastCheckTS' = now
            /\ wmWrites' = wmWrites + 1
       ELSE UNCHANGED <<lastCheckTS, wmWrites>>
    /\ pc' = "select"
    /\ UNCHANGED <<cfgVars, tokens, passVars, cityIdx, runResult,
                   clockVars, cancelled, tickPending, store, srcVars,
                   itemTrace, visited, cityErr, abortedBy, reported, wmReads, lastMark, cleared, fetchObs,
                   delivered, calls, grants, sentReq, lockVars, prevPass>>

\* runOnce returning an error when a city failed, and Run returning it
WatermarkStep_ReturnsCityError ==
    /\ pc = "watermark"
    /\ lastCheckTS' = now
    /\ wmWrites' = wmWrites + 1
    /\ IF cityErr = {}
       THEN pc' = "select" /\ UNCHANGED runResult
       ELSE pc' = "returned" /\ runResult' = "city_error"
    /\ UNCHANGED <<cfgVars, tokens, passVars, cityIdx, clockVars, cancelled,
                   tickPending, store, srcVars, itemTrace, visited, cityErr,
                   abortedBy, reported, wmReads, lastMark, cleared, fetchObs,
                   delivered, calls, grants, sentReq, lockVars, prevPass>>

\* runOnce: the watermark is set to the current time and runOnce returns nil
WatermarkStep ==
    /\ pc = "watermark"
    /\ CanLock(mu)
    /\ lastCheckTS' = now
    /\ mu' = Unlock(Lock(mu))
    /\ wmWrites' = wmWrites + 1
    /\ pc' = "select"
    /\ UNCHANGED <<cfgVars, tokens, passVars, cityIdx, runResult,
                   clockVars, cancelled, tickPending, store, srcVars,
                   itemTrace, visited, cityErr, abortedBy, reported, wmReads, lastMark, cleared, fetchObs,
                   delivered, calls, grants, sentReq, muAtCall, prevPass>>

\* Run: the select on ctx.Done() and ticker.C; with both ready either is taken
SelectStep ==
    /\ pc = "select"
    /\ \/ /\ cancelled
          /\ pc' = "returned"
          /\ runResult' = "context_canceled"
          /\ UNCHANGED <<cityIdx, tickPending, visited, cityErr, abortedBy, reported, wmWrites, wmReads>>
       \/ /\ tickPending
          /\ tickPending' = FALSE
          /\ BeginCycle
          /\ UNCHANGED runResult
    /\ UNCHANGED <<svcVars, passVars, clockVars, cancelled, store, srcVars,
                   itemTrace, lastMark, cleared, fetchObs, delivered, calls, grants, sentReq, lockVars, prevPass>>

\* ----------------------------------------------------- Service.ProcessCity
curCity == CityConfig(cityIdx)
curArticle == articles[itemIdx]

\* runOnce returning the error of ProcessCity instead of going on
ReturnToRunOnce_AbortCycle(failed, sent) ==
    /\ pc' = IF failed THEN "select" ELSE "city"
    /\ cityIdx' = cityIdx + 1
    /\ cityErr' = IF failed THEN cityErr \cup {cityIdx} ELSE cityErr
    /\ abortedBy' = IF failed
                    THEN [c \in DOMAIN abortedBy \cup {cityIdx} |->
                            IF c = cityIdx THEN pc ELSE abortedBy[c]]
                    ELSE abortedBy
    /\ reported' = IF failed THEN reported ELSE reported \cup {cityIdx}
    /\ prevPass' = IF cityIdx = watched THEN [ran |-> TRUE, delivered |-> sent]
                   ELSE prevPass
    /\ articles' = <<>>
    /\ itemIdx' = 0
    /\ posted' = 0 /\ skipped' = 0 /\ errors' = 0
    /\ delivered' = {}
    /\ calls' = 0
    /\ grants' = 0
    /\ sentReq' = NoReq
    /\ lastQuery' = NoQuery
    /\ probe' = "none"
    /\ probeQuery' = NoQuery
    /\ rerun' = FALSE
    /\ liveAtCheck' = FALSE

\* ProcessCity returns to runOnce, which logs an error, if any, and goes on
\* with the next city; the locals of the pass are gone
ReturnToRunOnce(failed, sent) ==
    /\ pc' = "city"
    /\ cityIdx' = cityIdx + 1
    /\ cityErr' = IF failed THEN cityErr \cup {cityIdx} ELSE cityErr
    /\ abortedBy' = IF failed
                    THEN [c \in DOMAIN abortedBy \cup {cityIdx} |->
                            IF c = cityIdx THEN pc ELSE abortedBy[c]]
                    ELSE abortedBy
    /\ reported' = IF failed THEN reported ELSE reported \cup {cityIdx}
    /\ prevPass' = IF cityIdx = watched THEN [ran |-> TRUE, delivered |-> sent]
                   ELSE prevPass
    /\ articles' = <<>>
    /\ itemIdx' = 0
    /\ posted' = 0 /\ skipped' = 0 /\ errors' = 0
    /\ delivered' = {}
    /\ calls' = 0
    /\ grants' = 0
    /\ sentReq' = NoReq
    /\ lastQuery' = NoQuery
    /\ probe' = "none"
    /\ probeQuery' = NoQuery
    /\ rerun' = FALSE
    /\ liveAtCheck' = FALSE

\* the loop over the articles goes on with the next article
NextArticle ==
    /\ pc' = "item"
    /\ itemIdx' = itemIdx + 1

\* the pass about to start repeats the watched city's previous pass
Rerun ==
    /\ cityIdx = watched
    /\ prevPass.ran
    /\ ~srcChanged
    /\ \A id \in prevPass.delivered : StoreExists(store, TrackerKey(id), now) = 1

\* FindCrimeArticles returning the error of the diagnostic probe: a probe
\* that fails makes ProcessCity return an error
FetchStep_ProbeErrorFails ==
    /\ pc = "fetch"
    /\ lookbackHours > 0 => CanRLock(mu)
    /\ LET got == getLastCheckTS(mu, lastCheckTS)
           query == BuildQuery(curCity, lookbackHours, got.value)
           resp == SearchResponse(index, query)
       IN /\ wmReads' = IF lookbackHours > 0 THEN wmReads \cup {got.value}
                        ELSE wmReads
          /\ mu' = IF lookbackHours > 0 THEN got.mu ELSE mu
          /\ muAtCall' = mu'
          /\ srcChanged' = FALSE
          /\ \E outcome \in SearchOutcomes, p \in SearchOutcomes :
                /\ cancelled => (outcome = "transport_err" /\ p = "transport_err")
                /\ articles' = IF outcome = "ok" /\ (ProbeRuns(resp.total) => p = "ok")
                               THEN ArticlesOf(resp.hits) ELSE <<>>
                /\ itemIdx' = IF outcome = "ok" /\ (ProbeRuns(resp.total) => p = "ok")
                              THEN 1 ELSE 0
                /\ posted' = 0 /\ skipped' = 0 /\ errors' = 0
                /\ delivered' = {}
                /\ calls' = 0
                /\ grants' = 0
                /\ sentReq' = NoReq
                /\ liveAtCheck' = FALSE
                /\ probe' = IF outcome = "ok" /\ ProbeRuns(resp.total)
                            THEN p ELSE "none"
                /\ probeQuery' = IF outcome = "ok" /\ ProbeRuns(resp.total)
                                 THEN ProbeQuery(curCity) ELSE NoQuery
                /\ IF outcome = "ok" /\ (ProbeRuns(resp.total) => p = "ok")
                   THEN /\ lastQuery' = query
                        /\ rerun' = Rerun
                        /\ pc' = "item"
                        /\ UNCHANGED <<cityIdx, cityErr, abortedBy, reported, prevPass>>
                   ELSE /\ lastQuery' = NoQuery
                        /\ rerun' = FALSE
                        /\ pc' = "city"
                        /\ cityIdx' = cityIdx + 1
                        /\ cityErr' = cityErr \cup {cityIdx}
                        /\ abortedBy' = [c \in DOMAIN abortedBy \cup {cityIdx} |->
                                            IF c = cityIdx THEN pc ELSE abortedBy[c]]
                        /\ prevPass' = IF cityIdx = watched
                                       THEN [ran |-> TRUE, delivered |-> {}]
                                       ELSE prevPass
                        /\ UNCHANGED reported
    /\ UNCHANGED <<svcVars, runResult, clockVars, cancelled, tickPending, store,
                   index, sourceChanges, inRange, itemTrace, visited, wmWrites, lastMark, cleared>>

\* FindCrimeArticles: the query is built (reading the watermark when the
\* lookback is positive), the search is executed, the hits are converted and
\* the diagnostic probe is run on an empty total.  A cancelled context fails
\* the search.
Fetch(traced) ==
    /\ pc = "fetch"
    /\ lookbackHours > 0 => CanRLock(mu)
    /\ LET got == getLastCheckTS(mu, lastCheckTS)
           query == BuildQuery(curCity, lookbackHours, got.value)
           resp == SearchResponse(index, query)
       IN /\ wmReads' = IF lookbackHours > 0 THEN wmReads \cup {got.value}
                        ELSE wmReads
          /\ mu' = IF lookbackHours > 0 THEN got.mu ELSE mu
          /\ muAtCall' = mu'
          /\ srcChanged' = FALSE
          /\ \E outcome \in IF traced THEN {"ok"} ELSE SearchOutcomes :
                /\ inRange' = IF traced
                               THEN inRange \cup {<<query.target, e.doc>> :
                                            e \in Matches(index[query.target], query)}
                               ELSE inRange
                /\ cancelled => outcome = "transport_err"
                /\ IF outcome = "ok"
                   THEN /\ articles' = ArticlesOf(resp.hits)
                        /\ itemIdx' = 1
                        /\ posted' = 0 /\ skipped' = 0 /\ errors' = 0
                        /\ delivered' = {}
                        /\ calls' = 0
                        /\ grants' = 0
                        /\ sentReq' = NoReq
                        /\ lastQuery' = query
                        /\ rerun' = Rerun
                        /\ liveAtCheck' = FALSE
                        /\ pc' = "item"
                        /\ IF ProbeRuns(resp.total)
                           THEN \E p \in SearchOutcomes :
                                   /\ cancelled => p = "transport_err"
                                   /\ probe' = p
                                   /\ probeQuery' = ProbeQuery(curCity)
                           ELSE /\ probe' = "none"
                                /\ probeQuery' = NoQuery
                        /\ UNCHANGED <<cityIdx, cityErr, abortedBy, reported, prevPass>>
                   ELSE ReturnToRunOnce(TRUE, {})
    /\ UNCHANGED <<svcVars, runResult, clockVars, cancelled, tickPending, store,
                   index, sourceChanges, itemTrace, visited, wmWrites, lastMark, cleared>>

FetchStep == Fetch(FALSE)

\* the search observed: the documents its range filter lets through are
\* recorded; the search does not fail
FetchTraced == Fetch(TRUE)

\* the head of the loop over the articles: the next article is taken, or the
\* counts are logged and ProcessCity returns nil
ItemLoop ==
    /\ pc = "item"
    /\ UNCHANGED lockVars
    /\ IF itemIdx <= Len(articles)
       THEN /\ pc' = "filter"
            /\ itemTrace' = <<>>
            /\ liveAtCheck' = FALSE
            /\ sentReq' = NoReq
            /\ UNCHANGED <<passVars, cityIdx, cityErr, abortedBy, reported,
                           prevPass, lastQuery, probe, probeQuery, rerun, delivered, calls, grants>>
       ELSE /\ ReturnToRunOnce(FALSE, delivered)
            /\ UNCHANGED itemTrace
    /\ cleared' = << >>
    /\ UNCHANGED <<svcVars, runResult, clockVars, cancelled, tickPending, store,
                   srcVars, visited, wmWrites, wmReads, lastMark>>

\* the relevance filter without the continue: a rejected article is counted
\* as skipped and checked, throttled and published all the same
FilterStep_NoContinue ==
    /\ pc = "filter"
    /\ IF isCrimeRelated(curArticle)
       THEN /\ itemTrace' = Append(itemTrace, "filter_ok")
            /\ UNCHANGED skipped
       ELSE /\ skipped' = skipped + 1
            /\ itemTrace' = Append(itemTrace, "filter_reject")
    /\ pc' = "dedup"
    /\ UNCHANGED itemIdx
    /\ UNCHANGED <<svcVars, articles, posted, errors, cityIdx, runResult,
                   clockVars, cancelled, tickPending, store, srcVars, cycleObs,
                   lastMark, cleared, fetchObs, delivered, calls, grants, sentReq, lockVars, prevPass>>

\* the relevance filter: a rejected article is counted as skipped
FilterStep ==
    /\ pc = "filter"
    /\ IF isCrimeRelated(curArticle)
       THEN /\ pc' = "dedup"
            /\ itemTrace' = Append(itemTrace, "filter_ok")
            /\ UNCHANGED <<itemIdx, skipped>>
       ELSE /\ skipped' = skipped + 1
            /\ itemTrace' = Append(itemTrace, "filter_reject")
            /\ NextArticle
    /\ UNCHANGED <<svcVars, articles, posted, errors, cityIdx, runResult,
                   clockVars, cancelled, tickPending, store, srcVars, cycleObs,
                   lastMark, cleared, fetchObs, delivered, calls, grants, sentReq, lockVars, prevPass>>

\* the duplicate check with its result ignored
DedupStep_IgnoresResult ==
    /\ pc = "dedup"
    /\ liveAtCheck' = (curArticle.ID \in DOMAIN lastMark)
    /\ \E storeErr \in BOOLEAN :
          LET seen == HasPosted(store, curArticle.ID, now, storeErr)
          IN itemTrace' = Append(itemTrace,
                              IF storeErr THEN "dedup_err"
                              ELSE IF seen THEN "dedup_hit" ELSE "dedup_miss")
    /\ pc' = "throttle"
    /\ UNCHANGED <<itemIdx, skipped>>
    /\ UNCHANGED <<svcVars, articles, posted, errors, cityIdx, runResult,
                   clockVars, cancelled, tickPending, store, srcVars, cycleObs,
                   lastMark, cleared, lastQuery, probe, probeQuery, rerun, delivered, calls, grants, sentReq, lockVars, prevPass>>

\* the duplicate check leaving an article found in the ledger uncounted
DedupStep_HitNotCounted ==
    /\ pc = "dedup"
    /\ liveAtCheck' = (curArticle.ID \in DOMAIN lastMark)
    /\ \E storeErr \in BOOLEAN :
          LET seen == HasPosted(store, curArticle.ID, now, storeErr)
          IN /\ itemTrace' = Append(itemTrace,
                                 IF storeErr THEN "dedup_err"
                                 ELSE IF seen THEN "dedup_hit" ELSE "dedup_miss")
             /\ IF seen
                THEN /\ UNCHANGED skipped
                     /\ NextArticle
                ELSE /\ pc' = "throttle"
                     /\ UNCHANGED <<itemIdx, skipped>>
    /\ UNCHANGED <<svcVars, articles, posted, errors, cityIdx, runResult,
                   clockVars, cancelled, tickPending, store, srcVars, cycleObs,
                   lastMark, cleared, lastQuery, probe, probeQuery, rerun, delivered, calls, grants, sentReq, lockVars, prevPass>>

\* the duplicate check: an article found in the ledger is counted as skipped
DedupStep ==
    /\ pc = "dedup"
    /\ liveAtCheck' = (curArticle.ID \in DOMAIN lastMark)
    /\ \E storeErr \in BOOLEAN :
          LET seen == HasPosted(store, curArticle.ID, now, storeErr)
          IN /\ itemTrace' = Append(itemTrace,
                                 IF storeErr THEN "dedup_err"
                                 ELSE IF seen THEN "dedup_hit" ELSE "dedup_miss")
             /\ IF seen
                THEN /\ skipped' = skipped + 1
                     /\ NextArticle
                ELSE /\ pc' = "throttle"
                     /\ UNCHANGED <<itemIdx, skipped>>
    /\ UNCHANGED <<svcVars, articles, posted, errors, cityIdx, runResult,
                   clockVars, cancelled, tickPending, store, srcVars, cycleObs,
                   lastMark, cleared, lastQuery, probe, probeQuery, rerun, delivered, calls, grants, sentReq, lockVars, prevPass>>

\* limiter.Wait with its error ignored: the article is published all the same
ThrottleStep_IgnoresError ==
    /\ pc = "throttle"
    /\ UNCHANGED lockVars
    /\ IF cancelled
       THEN /\ itemTrace' = Append(itemTrace, "throttle_err")
            /\ UNCHANGED <<tokens, grants>>
       ELSE /\ tokens > 0
            /\ tokens' = tokens - 1
            /\ grants' = grants + 1
            /\ itemTrace' = Append(itemTrace, "throttle_ok")
    /\ pc' = "publish"
    /\ UNCHANGED <<passVars, cityIdx, cityErr, abortedBy, reported, prevPass,
                   fetchObs, delivered, calls, sentReq>>
    /\ UNCHANGED <<lastCheckTS, cfgVars, runResult, clockVars, cancelled,
                   tickPending, store, srcVars, visited, wmWrites, wmReads,
                   lastMark, cleared>>

\* limiter.Wait returning at once without taking a token from the bucket
ThrottleStep_NoToken ==
    /\ pc = "throttle"
    /\ UNCHANGED lockVars
    /\ IF cancelled
       THEN /\ itemTrace' = Append(itemTrace, "throttle_err")
            /\ ReturnToRunOnce(TRUE, delivered)
       ELSE /\ grants' = grants + 1
            /\ itemTrace' = Append(itemTrace, "throttle_ok")
            /\ pc' = "publish"
            /\ UNCHANGED <<passVars, cityIdx, cityErr, abortedBy, reported,
                           prevPass, fetchObs, delivered, calls, sentReq>>
    /\ UNCHANGED <<lastCheckTS, cfgVars, tokens, runResult, clockVars, cancelled,
                   tickPending, store, srcVars, visited, wmWrites, wmReads,
                   lastMark, cleared>>

\* limiter.Wait: a cancelled context makes ProcessCity return the error; else
\* the call returns once it has taken a token
ThrottleStep ==
    /\ pc = "throttle"
    /\ UNCHANGED lockVars
    /\ IF cancelled
       THEN /\ itemTrace' = Append(itemTrace, "throttle_err")
            /\ ReturnToRunOnce(TRUE, delivered)
            /\ UNCHANGED tokens
       ELSE /\ tokens > 0
            /\ tokens' = tokens - 1
            /\ grants' = grants + 1
            /\ itemTrace' = Append(itemTrace, "throttle_ok")
            /\ pc' = "publish"
            /\ UNCHANGED <<passVars, cityIdx, cityErr, abortedBy, reported,
                           prevPass, fetchObs, delivered, calls, sentReq>>
    /\ UNCHANGED <<lastCheckTS, cfgVars, runResult, clockVars, cancelled,
                   tickPending, store, srcVars, visited, wmWrites, wmReads,
                   lastMark, cleared>>

\* the publish step without the continue: a failed publish is marked too
PublishStep_MarksOnError ==
    /\ pc = "publish"
    /\ UNCHANGED lockVars
    /\ \E csrf \in CsrfOutcomes, resp \in PostOutcomes :
          /\ cancelled => (csrf = "transport_err" /\ resp = "transport_err")
          /\ calls' = calls + 1
          /\ sentReq' = RequestOnly(ArticleRequest(curArticle, curCity))
          /\ IF PostArticleOK(csrf, resp)
             THEN /\ itemTrace' = Append(itemTrace, "publish_ok")
                  /\ delivered' = delivered \cup {curArticle.ID}
                  /\ UNCHANGED errors
             ELSE /\ errors' = errors + 1
                  /\ itemTrace' = Append(itemTrace, "publish_err")
                  /\ UNCHANGED delivered
    /\ pc' = "mark"
    /\ UNCHANGED itemIdx
    /\ UNCHANGED <<svcVars, articles, posted, skipped, cityIdx, runResult,
                   clockVars, cancelled, tickPending, store, srcVars, cycleObs,
                   lastMark, cleared, fetchObs, prevPass, grants>>

\* the publish step returning the error instead of going on
PublishStep_ReturnsOnError ==
    /\ pc = "publish"
    /\ UNCHANGED lockVars
    /\ \E csrf \in CsrfOutcomes, resp \in PostOutcomes :
          /\ cancelled => (csrf = "transport_err" /\ resp = "transport_err")
          /\ IF PostArticleOK(csrf, resp)
             THEN /\ pc' = "mark"
                  /\ itemTrace' = Append(itemTrace, "publish_ok")
                  /\ delivered' = delivered \cup {curArticle.ID}
                  /\ calls' = calls + 1
                  /\ sentReq' = RequestOnly(ArticleRequest(curArticle, curCity))
                  /\ UNCHANGED <<articles, itemIdx, posted, skipped, errors,
                                 cityIdx, cityErr, abortedBy, reported, prevPass,
                                 fetchObs, grants>>
             ELSE /\ itemTrace' = Append(itemTrace, "publish_err")
                  /\ ReturnToRunOnce(TRUE, delivered)
    /\ UNCHANGED <<svcVars, runResult, clockVars, cancelled, tickPending, store,
                   srcVars, visited, wmWrites, wmReads, lastMark, cleared>>

\* PostArticle: a failed publish is counted as an error and the loop goes on.
\* A cancelled context fails the creation request.  The observation keeps the
\* token header and the answer when traced, else the document only.
Publish(traced) ==
    /\ pc = "publish"
    /\ UNCHANGED lockVars
    /\ \E csrf \in CsrfOutcomes, resp \in PostOutcomes :
          /\ cancelled => (csrf = "transport_err" /\ resp = "transport_err")
          /\ calls' = calls + 1
          /\ sentReq' = IF traced
                        THEN SentRequest(ArticleRequest(curArticle, curCity), csrf, resp)
                        ELSE RequestOnly(ArticleRequest(curArticle, curCity))
          /\ IF PostArticleOK(csrf, resp)
             THEN /\ pc' = "mark"
                  /\ itemTrace' = Append(itemTrace, "publish_ok")
                  /\ delivered' = delivered \cup {curArticle.ID}
                  /\ UNCHANGED <<itemIdx, errors>>
             ELSE /\ errors' = errors + 1
                  /\ itemTrace' = Append(itemTrace, "publish_err")
                  /\ NextArticle
                  /\ UNCHANGED delivered
    /\ UNCHANGED <<svcVars, articles, posted, skipped, cityIdx, runResult,
                   clockVars, cancelled, tickPending, store, srcVars, cycleObs,
                   lastMark, cleared, fetchObs, prevPass, grants>>

PublishStep == Publish(FALSE)

PublishTraced == Publish(TRUE)

\* ProcessCity checking the context before MarkPosted: once cancelled, the
\* published article is left unmarked
MarkStep_SkippedWhenCancelled ==
    /\ pc = "mark"
    /\ UNCHANGED lockVars
    /\ IF cancelled
       THEN UNCHANGED <<store, lastMark, cleared, itemTrace>>
       ELSE \E storeErr \in BOOLEAN :
               /\ store' = MarkPosted(store, curArticle.ID, now, storeErr)
               /\ lastMark' = IF storeErr THEN lastMark
                              ELSE StoreSet(lastMark, curArticle.ID, now)
               /\ cleared' = IF storeErr THEN cleared
                             ELSE StoreDel(cleared, curArticle.ID)
               /\ itemTrace' = Append(itemTrace,
                                      IF MarkPostedErr(storeErr) # "nil"
                                      THEN "mark_err" ELSE "mark_ok")
    /\ posted' = posted + 1
    /\ NextArticle
    /\ sentReq' = NoReq
    /\ UNCHANGED <<svcVars, articles, skipped, errors, cityIdx, runResult,
                   clockVars, cancelled, tickPending, srcVars, cycleObs,
                   fetchObs, delivered, calls, grants, prevPass>>

\* a failure of MarkPosted counted in errors instead of posted
MarkStep_FailureCounted ==
    /\ pc = "mark"
    /\ UNCHANGED lockVars
    /\ \E storeErr \in BOOLEAN :
          /\ store' = MarkPosted(store, curArticle.ID, now, storeErr)
          /\ lastMark' = IF storeErr THEN lastMark
                         ELSE StoreSet(lastMark, curArticle.ID, now)
          /\ cleared' = IF storeErr THEN cleared
                        ELSE StoreDel(cleared, curArticle.ID)
          /\ itemTrace' = Append(itemTrace,
                                 IF MarkPostedErr(storeErr) # "nil"
                                 THEN "mark_err" ELSE "mark_ok")
          /\ posted' = IF storeErr THEN posted ELSE posted + 1
          /\ errors' = IF storeErr THEN errors + 1 ELSE errors
    /\ NextArticle
    /\ sentReq' = NoReq
    /\ UNCHANGED <<svcVars, articles, skipped, cityIdx, runResult,
                   clockVars, cancelled, tickPending, srcVars, cycleObs,
                   fetchObs, delivered, calls, grants, prevPass>>

\* MarkPosted: a failure is logged; the article is counted as posted either way
MarkStep ==
    /\ pc = "mark"
    /\ UNCHANGED lockVars
    /\ \E storeErr \in BOOLEAN :
          /\ store' = MarkPosted(store, curArticle.ID, now, storeErr)
          /\ lastMark' = IF storeErr THEN lastMark
                         ELSE StoreSet(lastMark, curArticle.ID, now)
          /\ cleared' = IF storeErr THEN cleared
                        ELSE StoreDel(cleared, curArticle.ID)
          /\ itemTrace' = Append(itemTrace,
                                 IF MarkPostedErr(storeErr) # "nil"
                                 THEN "mark_err" ELSE "mark_ok")
    /\ posted' = posted + 1
    /\ NextArticle
    /\ sentReq' = NoReq
    /\ UNCHANGED <<svcVars, articles, skipped, errors, cityIdx, runResult,
                   clockVars, cancelled, tickPending, srcVars, cycleObs,
                   fetchObs, delivered, calls, grants, prevPass>>

\* ----------------------------------------------------------- environment
\* An environment step is taken right before the program step that observes
\* it: the clock is read by the store (existence query, set with expiry), by
\* the watermark write and by the indexing of a document; the store is read
\* by the existence query; the bucket by limiter.Wait; the ticker by the
\* select; the collections by the search.  The cancellation signal fires at
\* any point.

\* the clock advances by an hour or by the ledger's time-to-live; the store
\* drops the records that have expired
Tick ==
    /\ pc \in {"fetch", "dedup", "watermark"}
    /\ ticks + sourceChanges < MaxEnvSteps
    /\ \E d \in {1, TrackerTTL} : now' = now + d
    /\ ticks' = ticks + 1
    /\ store' = StoreExpire(store, now')
    /\ lastMark' = [id \in {x \in DOMAIN lastMark : lastMark[x] + TrackerTTL > now'}
                      |-> lastMark[id]]
    /\ UNCHANGED <<svcVars, passVars, ctlVars, cancelled, tickPending, srcVars,
                   itemTrace, cycleObs, cleared, fetchObs, delivered, calls, grants, sentReq, lockVars, prevPass>>

\* the cancellation signal fires; main installs its handler after NewService
Cancel ==
    /\ pc \notin {"boot", "exit_1"}
    /\ ~cancelled
    /\ cancelled' = TRUE
    /\ UNCHANGED <<svcVars, passVars, ctlVars, clockVars, tickPending, store,
                   srcVars, itemTrace, cycleObs, lastMark, cleared, fetchObs, delivered, calls, grants, sentReq, lockVars,
                   prevPass>>

\* the ticker delivers a tick; a tick is dropped while one is pending
TimerFire ==
    /\ pc = "select"
    /\ ~tickPending
    /\ tickPending' = TRUE
    /\ UNCHANGED <<svcVars, passVars, ctlVars, clockVars, cancelled, store,
                   srcVars, itemTrace, cycleObs, lastMark, cleared, fetchObs, delivered, calls, grants, sentReq, lockVars,
                   prevPass>>

\* the limiter's bucket refills up to its burst
Refill ==
    /\ pc = "throttle"
    /\ tokens < RateLimitRPS
    /\ tokens' = tokens + 1
    /\ UNCHANGED <<lastCheckTS, cfgVars, passVars, ctlVars, clockVars,
                   cancelled, tickPending, store, srcVars, itemTrace, cycleObs,
                   lastMark, cleared, fetchObs, delivered, calls, grants, sentReq, lockVars, prevPass>>

\* a document, published now, is indexed in the collection about to be searched
SourceAdd ==
    /\ pc = "fetch"
    /\ ticks + sourceChanges < MaxEnvSteps
    /\ \E d \in Docs :
          LET t == IndexName(curCity)
          IN /\ \A e \in index[t] : e.doc # d
             /\ index' = [index EXCEPT ![t] = @ \cup {[doc |-> d, published |-> now]}]
    /\ srcChanged' = TRUE
    /\ UNCHANGED inRange
    /\ sourceChanges' = sourceChanges + 1
    /\ UNCHANGED <<svcVars, passVars, ctlVars, clockVars, cancelled, tickPending,
                   store, itemTrace, cycleObs, lastMark, cleared, fetchObs, delivered, calls, grants, sentReq, lockVars,
                   prevPass>>

\* a document, published now, is indexed in a collection while runOnce is
\* between the last city and the write of the watermark: after the search of
\* this cycle in that collection
SourceAddLate ==
    /\ pc = "watermark"
    /\ \E c \in Cities, d \in Docs :
          LET t == IndexName(CityConfig(c))
          IN /\ \A e \in index[t] : e.doc # d
             /\ index' = [index EXCEPT ![t] = @ \cup {[doc |-> d, published |-> now]}]
             /\ srcChanged' = (srcChanged \/ c = watched)
    /\ UNCHANGED <<sourceChanges, inRange>>
    /\ UNCHANGED <<svcVars, passVars, ctlVars, clockVars, cancelled, tickPending,
                   store, itemTrace, cycleObs, lastMark, cleared, fetchObs, delivered, calls, grants, sentReq, lockVars,
                   prevPass>>

\* an operator calls Tracker.Clear for the identifier about to be checked
OperatorClear ==
    /\ pc = "dedup"
    /\ \E storeErr \in BOOLEAN :
          /\ store' = Clear(store, curArticle.ID, storeErr)
          /\ lastMark' = IF storeErr THEN lastMark
                         ELSE StoreDel(lastMark, curArticle.ID)
          /\ cleared' =
                IF storeErr THEN cleared
                ELSE LET held ==
                           \/ HasPosted(store, curArticle.ID, now, FALSE)
                           \/ curArticle.ID \in DOMAIN cleared /\ cleared[curArticle.ID]
                     IN StoreSet(cleared, curArticle.ID, held)
          /\ store' # store \/ lastMark' # lastMark \/ cleared' # cleared
    /\ UNCHANGED <<svcVars, passVars, ctlVars, clockVars, cancelled, tickPending,
                   srcVars, itemTrace, cycleObs, fetchObs, delivered, calls, grants, sentReq, lockVars, prevPass>>

\* ------------------------------------------------------------------ Next
Next ==
    \/ RunStart
    \/ CityLoop
    \/ FetchStep
    \/ ItemLoop
    \/ FilterStep
    \/ DedupStep
    \/ ThrottleStep
    \/ PublishStep
    \/ MarkStep
    \/ WatermarkStep
    \/ SelectStep
    \/ Tick
    \/ Cancel
    \/ TimerFire
    \/ Refill
    \/ SourceAdd
    \/ OperatorClear

Spec == Init /\ [][Next]_vars

\* the steps of the service itself
ProgramStep ==
    \/ RunStart
    \/ CityLoop
    \/ FetchStep
    \/ ItemLoop
    \/ FilterStep
    \/ DedupStep
    \/ ThrottleStep
    \/ PublishStep
    \/ MarkStep
    \/ WatermarkStep
    \/ SelectStep

\* The goroutine of Run keeps being scheduled, every call it makes returns
\* (the HTTP clients and the store client carry timeouts) and the limiter's
\* bucket keeps refilling.
LiveSpec == Spec /\ WF_vars(ProgramStep) /\ WF_vars(Refill)

\* ------------------------------------------------- the queried windows
\* The service with a positive lookback and a search that does not fail (so
\* no cancellation either), documents being indexed also after the search of
\* their collection, and every search observed.
GapInit ==
    /\ Init
    /\ lookbackHours > 0

GapNext ==
    \/ RunStart
    \/ CityLoop
    \/ FetchTraced
    \/ ItemLoop
    \/ FilterStep
    \/ DedupStep
    \/ ThrottleStep
    \/ PublishStep
    \/ MarkStep
    \/ WatermarkStep
    \/ SelectStep
    \/ Tick
    \/ TimerFire
    \/ Refill
    \/ SourceAdd
    \/ SourceAddLate

GapSpec == GapInit /\ [][GapNext]_vars

\* ------------------------------------------------------------------ main
\* NewService without the ping: an unreachable store is found out by the
\* first cycle
Boot_WithoutPing ==
    /\ pc = "boot"
    /\ IF LoadErr(rawCfg) # "nil" \/ bootEnv \notin {"ok", "redis_ping"}
       THEN /\ pc' = "exit_1"
            /\ UNCHANGED <<lookbackHours, keywords, contentType, dedupTTL, lastCheckTS, tokens>>
       ELSE LET cfg == WithDefaults(rawCfg)
            IN /\ pc' = "run"
               /\ lookbackHours' = cfg.LookbackHours
               /\ keywords' = CrimeKeywords
               /\ contentType' = ContentTypeOrDefault(contentType)
               /\ dedupTTL' = cfg.DedupTTL
               /\ lastCheckTS' = now - cfg.LookbackHours
               /\ tokens' = cfg.RateLimitRPS
    /\ UNCHANGED <<rawCfg, bootEnv, passVars, cityIdx, runResult, clockVars,
                   cancelled, tickPending, store, srcVars, itemTrace, cycleObs,
                   lastMark, cleared, fetchObs, delivered, calls, grants, sentReq, lockVars,
                   prevPass>>

\* main, from its first statement: the configuration is loaded and validated,
\* the logger is created, NewService builds the clients and pings the store;
\* any failure ends the process with os.Exit(1).  Otherwise the service is
\* constructed (the watermark is the current time minus the lookback, the
\* bucket is full) and Run is about to be called.
Boot ==
    /\ pc = "boot"
    /\ IF LoadErr(rawCfg) # "nil" \/ bootEnv # "ok"
       THEN /\ pc' = "exit_1"
            /\ UNCHANGED <<lookbackHours, keywords, contentType, dedupTTL, lastCheckTS, tokens>>
       ELSE LET cfg == WithDefaults(rawCfg)
            IN /\ pc' = "run"
               /\ lookbackHours' = cfg.LookbackHours
               /\ keywords' = CrimeKeywords
               /\ contentType' = ContentTypeOrDefault(contentType)
               /\ dedupTTL' = cfg.DedupTTL
               /\ lastCheckTS' = now - cfg.LookbackHours
               /\ tokens' = cfg.RateLimitRPS
    /\ UNCHANGED <<rawCfg, bootEnv, passVars, cityIdx, runResult, clockVars,
                   cancelled, tickPending, store, srcVars, itemTrace, cycleObs,
                   lastMark, cleared, fetchObs, delivered, calls, grants, sentReq, lockVars,
                   prevPass>>

\* the files main is started with: every way of failing the load, a positive
\* lookback and a configured rate and time-to-live
BootConfigs ==
    {r \in RawConfigs : r.LookbackHours = 1 /\ r.DedupTTL # 0 /\ r.RateLimitRPS # 0}

\* the process has been started: nothing is loaded or constructed yet
BootInit ==
    /\ rawCfg \in BootConfigs
    /\ bootEnv \in BootEnvs
    /\ lookbackHours = 0
    /\ keywords = << >>
    /\ dedupTTL = 0
    /\ now = 0
    /\ ticks = 0
    /\ lastCheckTS = 0
    /\ tokens = 0
    /\ pc = "boot"
    /\ cityIdx = 0
    /\ articles = <<>>
    /\ itemIdx = 0
    /\ posted = 0 /\ skipped = 0 /\ errors = 0
    /\ runResult = "none"
    /\ cancelled = FALSE
    /\ tickPending = FALSE
    /\ \E old \in SUBSET {DocRowID(1)} :
          store = [k \in {TrackerKey(id) : id \in old} |-> now + 1]
    /\ index = [t \in TargetNames |-> {[doc |-> 1, published |-> now]}]
    /\ sourceChanges = 0
    /\ srcChanged = FALSE
    /\ inRange = {}
    /\ itemTrace = <<>>
    /\ visited = <<>>
    /\ cityErr = {}
    /\ wmWrites = 0
    /\ wmReads = {}
    /\ lastMark = << >>
    /\ cleared = << >>
    /\ abortedBy = << >>
    /\ reported = {}
    /\ lastQuery = NoQuery
    /\ probe = "none"
    /\ probeQuery = NoQuery
    /\ delivered = {}
    /\ prevPass = NoPass
    /\ rerun = FALSE
    /\ liveAtCheck = FALSE
    /\ calls = 0
    /\ grants = 0
    /\ mu = MuFree
    /\ muAtCall = MuFree
    /\ contentType = <<>>
    /\ sentReq = NoReq

BootNext ==
    \/ Boot
    \/ Next

BootSpec == BootInit /\ [][BootNext]_vars

\* ------------------------------------------- the publish step on its own
\* ProcessCity about to call PostArticle for an article that passed the
\* filter, the duplicate check and the throttle, in the pass of any city over
\* any collection holding a relevant document; the token header and the
\* answer of every creation request are observed.
PublishInit ==
    /\ lookbackHours = 0
    /\ keywords = CrimeKeywords
    /\ now = 0
    /\ ticks = 0
    /\ lastCheckTS = 0
    /\ tokens = RateLimitRPS - 1
    /\ pc = "publish"
    /\ cityIdx \in Cities
    /\ \E held \in SUBSET Docs :
          /\ index = [t \in TargetNames |-> {[doc |-> d, published |-> now] : d \in held}]
          /\ lastQuery = BuildQuery(curCity, lookbackHours, lastCheckTS)
          /\ articles = ArticlesOf(SearchResponse(index, lastQuery).hits)
    /\ itemIdx \in 1..Len(articles)
    /\ isCrimeRelated(curArticle)
    /\ \A i \in 1..(itemIdx - 1) : ~isCrimeRelated(articles[i])
    /\ posted = 0 /\ skipped = itemIdx - 1 /\ errors = 0
    /\ runResult = "none"
    /\ cancelled = FALSE
    /\ tickPending = FALSE
    /\ \E old \in SUBSET (ArticleIDs \ {curArticle.ID}) :
          store = [k \in {TrackerKey(id) : id \in old} |-> now + 1]
    /\ sourceChanges = 0
    /\ srcChanged = FALSE
    /\ inRange = {}
    /\ itemTrace = <<"filter_ok", "dedup_miss", "throttle_ok">>
    /\ visited = [i \in 1..cityIdx |-> i]
    /\ cityErr = {}
    /\ abortedBy = << >>
    /\ reported = 1..(cityIdx - 1)
    /\ wmWrites = 0
    /\ wmReads = {}
    /\ lastMark = << >>
    /\ cleared = << >>
    /\ probe = "none"
    /\ probeQuery = NoQuery
    /\ delivered = {}
    /\ prevPass = NoPass
    /\ rerun = FALSE
    /\ liveAtCheck = FALSE
    /\ calls = 0
    /\ grants = 1
    /\ mu = MuFree
    /\ muAtCall = MuFree
    /\ contentType \in ContentTypes
    /\ sentReq = NoReq
    /\ rawCfg = GoodRaw(lookbackHours, 0)
    /\ bootEnv = "ok"
    /\ dedupTTL = WithDefaults(rawCfg).DedupTTL

PublishNext ==
    \/ PublishTraced
    \/ MarkStep
    \/ ItemLoop
    \/ Cancel

PublishSpec == PublishInit /\ [][PublishNext]_vars

\* ------------------------------------------------ the filter on its own
\* isCrimeRelated applied, by the filter step of ProcessCity, to one article
\* with any title and body under any keyword list, within the bounds.
FilterChars == {"a", "A", " "}

RECURSIVE StringsUpTo(_)
StringsUpTo(n) ==
    IF n = 0 THEN {<< >>}
    ELSE LET shorter == StringsUpTo(n - 1)
         IN shorter \cup {Append(w, ch) : w \in shorter, ch \in FilterChars}

RECURSIVE ListsUpTo(_, _)
ListsUpTo(S, n) ==
    IF n = 0 THEN {<< >>}
    ELSE LET shorter == ListsUpTo(S, n - 1)
         IN shorter \cup {Append(l, k) : l \in shorter, k \in S}

FilterInit ==
    /\ lookbackHours = 0
    /\ keywords \in ListsUpTo(StringsUpTo(MaxLen), MaxKeywords)
    /\ now = 0
    /\ ticks = 0
    /\ lastCheckTS = 0
    /\ tokens = RateLimitRPS
    /\ pc = "filter"
    /\ cityIdx = 1
    /\ \E title \in StringsUpTo(MaxLen), body \in StringsUpTo(MaxLen) :
          articles = <<[ID |-> DocRowID(1), Title |-> title, Content |-> body,
                        PublishedAt |-> 0]>>
    /\ itemIdx = 1
    /\ posted = 0 /\ skipped = 0 /\ errors = 0
    /\ runResult = "none"
    /\ cancelled = FALSE
    /\ tickPending = FALSE
    /\ store = << >>
    /\ index = [t \in TargetNames |-> {}]
    /\ sourceChanges = 0
    /\ srcChanged = FALSE
    /\ inRange = {}
    /\ itemTrace = << >>
    /\ visited = <<1>>
    /\ cityErr = {}
    /\ abortedBy = << >>
    /\ reported = {}
    /\ wmWrites = 0
    /\ wmReads = {}
    /\ lastMark = << >>
    /\ cleared = << >>
    /\ lastQuery = NoQuery
    /\ probe = "none"
    /\ probeQuery = NoQuery
    /\ delivered = {}
    /\ prevPass = NoPass
    /\ rerun = FALSE
    /\ liveAtCheck = FALSE
    /\ calls = 0
    /\ grants = 0
    /\ mu = MuFree
    /\ muAtCall = MuFree
    /\ contentType = NodeArticle
    /\ sentReq = NoReq
    /\ rawCfg = GoodRaw(lookbackHours, 0)
    /\ bootEnv = "ok"
    /\ dedupTTL = WithDefaults(rawCfg).DedupTTL

FilterSpec == FilterInit /\ [][FilterStep]_vars

\* ---------------------------------------------------------------- claims

\* C1: within one cycle, when ProcessCity returns an error for the city at
\* position i, ProcessCity is still invoked, in configured order, for every
\* city after i before the cycle ends.
C1_FailureIsolation ==
    pc \in {"watermark", "select", "returned"} =>
        \A i \in cityErr : \A j \in (i + 1)..NumCities :
            Len(visited) >= j /\ visited[j] = j

C1_Witness ==
    /\ pc = "watermark"
    /\ 1 \in cityErr
    /\ visited = [j \in 1..NumCities |-> j]

\* C2: every cycle that starts comes to its end, and the step that ends it
\* sets lastCheckTS to the current time, whatever cities failed.
C2_WatermarkAtCycleEnd ==
    /\ [][(InCycle /\ ~InCycle') =>
             (lastCheckTS' = now /\ wmWrites' = wmWrites + 1)]_vars
    /\ []<>(~InCycle)

C2_Witness ==
    /\ pc = "select"
    /\ cityErr = Cities
    /\ wmWrites = 1
    /\ lastCheckTS = now
    /\ now > 0

\* C3: lastCheckTS never decreases, the first write included (the original
\* statement; a negative lookback_hours passes Validate and puts the initial
\* value after the start time).
C3_Monotone == [][lastCheckTS' >= lastCheckTS]_vars

\* C4: the watermark is written exactly once per cycle, after the last city,
\* never while cities or articles are processed, and the queries of one cycle
\* all read one value.
C4_WrittenOncePerCycle ==
    /\ (InCycle => wmWrites = 0)
    /\ (pc \in {"select", "returned"} => wmWrites = 1)
    /\ Cardinality(wmReads) <= 1
    /\ (InCycle => wmReads \subseteq {lastCheckTS})

C4_Witness ==
    /\ pc = "select"
    /\ wmWrites = 1
    /\ Cardinality(wmReads) = 1
    /\ visited = [j \in 1..NumCities |-> j]
    /\ cityErr = {}
    /\ now > 0

\* C5 as stated: a pass that repeats the previous pass of the city, with the
\* source unchanged and every identifier the previous pass delivered recorded
\* in the ledger, delivers none of those identifiers.
C5_NeverRedelivers ==
    rerun => delivered \cap prevPass.delivered = {}

\* C5 as amended: such a pass delivers an identifier of the previous pass
\* only if, at its duplicate check, the record had expired or been cleared, or
\* the store failed the existence query.
C5_RedeliversOnlyOnLapse ==
    (rerun /\ pc = "mark" /\ curArticle.ID \in prevPass.delivered) =>
        (~liveAtCheck \/ itemTrace[2] = "dedup_err")

C5_Witness ==
    /\ rerun
    /\ pc = "item"
    /\ itemIdx > 1
    /\ articles[itemIdx - 1].ID \in prevPass.delivered
    /\ liveAtCheck
    /\ itemTrace = <<"filter_ok", "dedup_hit">>

\* C6: the steps of an article happen in the order filter, duplicate check,
\* throttle, publish, mark: the publish request is issued only after the
\* filter accepted the article, HasPosted returned false and limiter.Wait
\* succeeded for it.
C6_StepOrder ==
    /\ \A k \in 1..Len(itemTrace) :
          /\ itemTrace[k] \in {"filter_ok", "filter_reject"} => k = 1
          /\ itemTrace[k] \in {"dedup_hit", "dedup_miss", "dedup_err"} =>
                k = 2 /\ itemTrace[1] = "filter_ok"
          /\ itemTrace[k] \in {"throttle_ok", "throttle_err"} =>
                k = 3 /\ itemTrace[2] \in {"dedup_miss", "dedup_err"}
          /\ itemTrace[k] \in {"publish_ok", "publish_err"} =>
                k = 4 /\ itemTrace[3] = "throttle_ok"
          /\ itemTrace[k] \in {"mark_ok", "mark_err"} =>
                k = 5 /\ itemTrace[4] = "publish_ok"
    /\ (pc = "publish" =>
          /\ Len(itemTrace) = 3
          /\ itemTrace[1] = "filter_ok"
          /\ itemTrace[2] \in {"dedup_miss", "dedup_err"}
          /\ itemTrace[3] = "throttle_ok")

C6_Witness ==
    /\ pc = "item"
    /\ itemTrace = <<"filter_ok", "dedup_miss", "throttle_ok", "publish_ok",
                     "mark_ok">>

\* C7: MarkPosted is called only after PostArticle returned no error for the
\* article, a record is written by nothing else, and a failed publish goes to
\* the next article with the ledger unchanged.
C7_MarkOnlyAfterPublish ==
    [][/\ (pc = "mark" => itemTrace[Len(itemTrace)] = "publish_ok")
       /\ \A k \in DOMAIN store' :
             (k \notin DOMAIN store \/ store'[k] # store[k]) =>
                 /\ pc = "mark"
                 /\ itemTrace[Len(itemTrace)] = "publish_ok"
                 /\ k = TrackerKey(curArticle.ID)
       /\ (pc = "publish" /\ pc' # "publish" /\ errors' # errors) =>
             (store' = store /\ lastMark' = lastMark /\ pc' = "item")]_vars

C7_Witness ==
    /\ pc = "item"
    /\ Len(itemTrace) = 5
    /\ itemTrace[5] = "mark_ok"
    /\ TrackerKey(articles[itemIdx - 1].ID) \in DOMAIN store

\* C8 as stated: a pass in which an article was rejected by the filter, found
\* in the ledger or failed to publish processes every article and returns nil.
C8_AlwaysReturnsNil ==
    [][(InPass /\ pc' = "city" /\ (skipped > 0 \/ errors > 0)) =>
          (cityErr' = cityErr /\ itemIdx > Len(articles))]_vars

\* C8 as amended: an article rejected by the filter, found in the ledger or
\* failing to publish is followed by the next article of the list, and the
\* pass returns nil after the last article unless limiter.Wait failed for an
\* article, which is the one thing that ends the pass early.
C8_ItemOutcomesDoNotAbort ==
    [][/\ (/\ pc \in {"filter", "dedup", "publish"}
           /\ itemTrace' # itemTrace
           /\ itemTrace'[Len(itemTrace')] \in
                 {"filter_reject", "dedup_hit", "publish_err"}) =>
             /\ pc' = "item"
             /\ itemIdx' = itemIdx + 1
             /\ articles' = articles
             /\ cityIdx' = cityIdx
             /\ cityErr' = cityErr
       /\ (InPass /\ pc' = "city") =>
             IF cityErr' = cityErr
             THEN pc = "item" /\ itemIdx > Len(articles)
             ELSE pc = "throttle" /\ cancelled]_vars

C8_Witness ==
    /\ pc = "filter"
    /\ itemIdx = 2
    /\ skipped + errors = 1
    /\ posted = 0

\* C9: HasPosted returns false when the store fails the existence query, and
\* ProcessCity then goes on to limiter.Wait and, once that returned, to the
\* publish request: the article is not skipped.
C9_FailsOpen ==
    /\ \A id \in ArticleIDs : ~HasPosted(store, id, now, TRUE)
    /\ (Len(itemTrace) >= 2 /\ itemTrace[2] = "dedup_err") =>
          /\ Len(itemTrace) = 2 => pc = "throttle"
          /\ (Len(itemTrace) = 3 /\ itemTrace[3] = "throttle_ok") =>
                pc = "publish"
          /\ Len(itemTrace) >= 4 =>
                itemTrace[4] \in {"publish_ok", "publish_err"}

C9_Witness ==
    /\ pc = "mark"
    /\ itemTrace[2] = "dedup_err"
    /\ HasPosted(store, curArticle.ID, now, FALSE)

\* C10: from a successful MarkPosted of an identifier until the record
\* expires or Clear is called for it, HasPosted returns true for the
\* identifier whenever the store answers.
C10_MarkedStaysPosted ==
    /\ \A id \in DOMAIN lastMark : HasPosted(store, id, now, FALSE)
    /\ (Len(itemTrace) >= 2 /\ liveAtCheck /\ itemTrace[2] # "dedup_err") =>
          itemTrace[2] = "dedup_hit"

C10_Witness ==
    /\ pc = "item"
    /\ liveAtCheck
    /\ itemTrace = <<"filter_ok", "dedup_hit">>
    /\ \E id \in DOMAIN lastMark : lastMark[id] < now

\* C11: from a successful Clear of an identifier until the next successful
\* MarkPosted of it, HasPosted returns false for it, whether or not the store
\* held a record before; the article is not skipped as a duplicate.
C11_ClearedIsNotPosted ==
    /\ \A id \in DOMAIN cleared :
          /\ ~HasPosted(store, id, now, FALSE)
          /\ ~HasPosted(store, id, now, TRUE)
    /\ (/\ pc = "item"
        /\ itemIdx > 1
        /\ Len(itemTrace) = 2
        /\ articles[itemIdx - 1].ID \in DOMAIN cleared) =>
          itemTrace[2] # "dedup_hit"

C11_Witness ==
    /\ pc = "mark"
    /\ curArticle.ID \in DOMAIN cleared
    /\ cleared[curArticle.ID]
    /\ itemTrace = <<"filter_ok", "dedup_miss", "throttle_ok", "publish_ok">>

\* C12: MarkPosted returns the error of the set operation: when it returns an
\* error the ledger is as it was, and when it returns nil the ledger holds
\* the record with the tracker's time-to-live.
C12_MarkErrorReported ==
    [][(pc = "mark" /\ pc' = "item") =>
          LET k == TrackerKey(curArticle.ID)
              outcome == itemTrace'[Len(itemTrace')]
          IN /\ outcome \in {"mark_ok", "mark_err"}
             /\ outcome = "mark_err" => (store' = store /\ lastMark' = lastMark)
             /\ outcome = "mark_ok" =>
                   /\ k \in DOMAIN store'
                   /\ store'[k] = now + TrackerTTL
                   /\ HasPosted(store', curArticle.ID, now, FALSE)]_vars

C12_Witness ==
    /\ pc = "item"
    /\ itemIdx > 1
    /\ Len(itemTrace) = 5
    /\ itemTrace[5] = "mark_err"
    /\ ~HasPosted(store, articles[itemIdx - 1].ID, now, FALSE)

\* C13: when limiter.Wait fails on the cancelled context, ProcessCity returns
\* at once, with no publish request and no ledger write for the current and
\* the later articles of the city, and runOnce goes on: the later cities are
\* visited and the watermark is written.
C13_ThrottleAbortsCityOnly ==
    /\ [][(/\ pc = "throttle"
            /\ itemTrace' # itemTrace
            /\ itemTrace'[Len(itemTrace')] = "throttle_err") =>
              /\ cancelled
              /\ pc' = "city"
              /\ cityIdx' = cityIdx + 1
              /\ articles' = << >>
              /\ store' = store
              /\ tokens' = tokens
              /\ cityIdx \in DOMAIN abortedBy'
              /\ abortedBy'[cityIdx] = "throttle"]_vars
    /\ [](pc \in {"watermark", "select", "returned"} =>
            \A c \in DOMAIN abortedBy :
                /\ \A j \in (c + 1)..NumCities :
                      Len(visited) >= j /\ visited[j] = j
                /\ pc # "watermark" => (wmWrites = 1 /\ lastCheckTS = now))

C13_Witness ==
    /\ pc = "select"
    /\ 1 \in DOMAIN abortedBy
    /\ abortedBy[1] = "throttle"
    /\ visited = [j \in 1..NumCities |-> j]
    /\ wmWrites = 1

\* C14: once the cancellation signal has fired, runOnce invokes ProcessCity
\* for no further city (the original statement; runOnce does not look at the
\* context between cities).
C14_NoNewCityAfterCancel ==
    [][(cancelled /\ pc = "city") => pc' # "fetch"]_vars

\* C15: once the cancellation signal has fired, Run enters runOnce no more,
\* neither for the initial cycle nor on a pending tick (the original
\* statement; Run runs the initial cycle unconditionally and its select may
\* take the tick when both channels are ready).
C15_NoNewCycleAfterCancel ==
    [][(cancelled /\ ~InCycle) => ~InCycle']_vars

\* C16: Run returns only after the cancellation signal has fired, from its
\* select and with the context's error; no error of a cycle makes it return.
C16_ReturnsOnlyOnCancel ==
    /\ [](pc = "returned" => (cancelled /\ runResult = "context_canceled"))
    /\ [](pc # "returned" => runResult = "none")
    /\ [][(pc # "returned" /\ pc' = "returned") => (pc = "select" /\ cancelled)]_vars

C16_Witness ==
    /\ pc = "select"
    /\ ~cancelled
    /\ cityErr = Cities
    /\ runResult = "none"

\* C17: after the cancellation signal has fired, what Run still touches is
\* bounded by the rest of the current cycle: from its select it does not go
\* into another cycle (the original statement; a tick pending at the select
\* may be taken, and a whole further cycle is run).
C17_NoCycleFromSelectAfterCancel ==
    [][(cancelled /\ pc = "select") => (pc' \in {"select", "returned"})]_vars

\* C18: every pass of ProcessCity that has ended in a cycle has logged its
\* counts of posted, skipped and failed articles (the original statement; the
\* counts are logged only by the pass that returns nil).
C18_EveryPassReports ==
    pc \in {"watermark", "select", "returned"} =>
        \A j \in 1..Len(visited) : visited[j] \in reported

\* C19 as stated: the filter accepts an article exactly when some keyword,
\* lower-cased, occurs in the lower-cased title immediately followed by the
\* body.
C19_MatchesPlainConcatenation ==
    pc # "filter" =>
        LET content == ToLower(articles[1].Title \o articles[1].Content)
        IN (itemTrace = <<"filter_ok">>) <=>
              \E i \in 1..Len(keywords) :
                 \E at \in 0..(Len(content) - Len(keywords[i])) :
                    \A m \in 1..Len(keywords[i]) :
                       content[at + m] = ToLowerChar(keywords[i][m])

\* C19 as amended: the filter accepts an article exactly when some keyword,
\* lower-cased, occurs in the lower-cased string made of the title, one space
\* and the body.
C19_MatchesSpacedConcatenation ==
    pc # "filter" =>
        LET content == ToLower(articles[1].Title \o <<" ">> \o articles[1].Content)
        IN (itemTrace = <<"filter_ok">>) <=>
              \E i \in 1..Len(keywords) :
                 \E at \in 0..(Len(content) - Len(keywords[i])) :
                    \A m \in 1..Len(keywords[i]) :
                       content[at + m] = ToLowerChar(keywords[i][m])

C19_Witness ==
    /\ pc = "dedup"
    /\ itemTrace = <<"filter_ok">>
    /\ articles[1].Title = <<"a">>
    /\ articles[1].Content = <<"A">>
    /\ keywords = << <<"A", " ">> >>

\* C20: an article rejected by the filter is counted as skipped and the loop
\* goes to the next article: no existence query, no limiter.Wait, no publish
\* request and no MarkPosted is made for it, and the store is unchanged.
C20_RejectedHasNoEffect ==
    /\ [][(pc = "filter" /\ itemTrace' # itemTrace) =>
             /\ ~isCrimeRelated(curArticle) <=>
                   itemTrace'[Len(itemTrace')] = "filter_reject"
             /\ itemTrace'[Len(itemTrace')] = "filter_reject" =>
                   /\ pc' = "item"
                   /\ itemIdx' = itemIdx + 1
                   /\ skipped' = skipped + 1
                   /\ posted' = posted
                   /\ errors' = errors
                   /\ store' = store
                   /\ lastMark' = lastMark
                   /\ tokens' = tokens
                   /\ delivered' = delivered]_vars
    /\ []((Len(itemTrace) >= 1 /\ itemTrace[1] = "filter_reject") =>
            (Len(itemTrace) = 1 /\ pc \in {"item", "filter", "city"}))

C20_Witness ==
    /\ pc = "item"
    /\ itemIdx = 2
    /\ itemTrace = <<"filter_reject">>
    /\ skipped = 1
    /\ tokens = RateLimitRPS

\* C21: every creation request sent while ProcessCity runs for a city carries
\* the group identifier configured for that city and for no other city, and
\* the article it carries was fetched from that city's collection.
C21_RequestCarriesGroupOfCity ==
    sentReq # NoReq =>
        /\ cityIdx \in Cities
        /\ sentReq.payload.fieldGroupID = CityConfig(cityIdx).GroupID
        /\ \A c \in Cities \ {cityIdx} :
              sentReq.payload.fieldGroupID # CityConfig(c).GroupID
        /\ lastQuery.target = IndexName(CityConfig(cityIdx))
        /\ \E i \in 1..Len(articles) :
              /\ sentReq.payload.title = articles[i].Title
              /\ sentReq.payload.body = articles[i].Content

C21_Witness ==
    /\ sentReq # NoReq
    /\ cityIdx = NumCities
    /\ sentReq.payload.fieldGroupID = CityConfig(NumCities).GroupID
    /\ pc = "mark"

\* the end of a pass over two articles, the first one irrelevant, the second
\* one relevant and found in the ledger by its duplicate check
C22_RerunEnd ==
    /\ pc = "item"
    /\ itemIdx > Len(articles)
    /\ Len(articles) = 2
    /\ ~isCrimeRelated(articles[1])
    /\ isCrimeRelated(articles[2])
    /\ itemTrace = <<"filter_ok", "dedup_hit">>

\* C22 as stated: a pass over a relevant article already in the ledger and an
\* irrelevant one makes no call of PostArticle and ends with a skipped count
\* of 1.
C22_SkippedIsOne ==
    C22_RerunEnd => (calls = 0 /\ skipped = 1)

\* C22, amended: such a pass makes no call of PostArticle and ends with a
\* skipped count of 2, the duplicate and the irrelevant article both being
\* counted as skipped, and with nothing posted and no error.
C22_SkippedIsTwo ==
    C22_RerunEnd =>
        /\ calls = 0
        /\ skipped = 2
        /\ posted = 0
        /\ errors = 0
        /\ delivered = {}

C22_Witness ==
    /\ C22_RerunEnd
    /\ rerun
    /\ prevPass.delivered = {articles[2].ID}
    /\ skipped = 2
    /\ calls = 0

\* C23: once PostArticle has returned nil for an article, the next step of
\* ProcessCity is the MarkPosted call for that article's identifier, before
\* the next article is taken or the pass ends, whether or not the context is
\* cancelled in between; and that step is taken.
C23_MarkFollowsPublish ==
    /\ [](\A i \in 1..Len(itemTrace) :
            itemTrace[i] = "publish_ok" =>
                IF i = Len(itemTrace)
                THEN pc = "mark" /\ curArticle.ID \in delivered
                ELSE itemTrace[i + 1] \in {"mark_ok", "mark_err"})
    /\ [][(pc = "mark" /\ pc' # "mark") =>
             \/ /\ itemTrace' = Append(itemTrace, "mark_ok")
                /\ StoreExists(store', TrackerKey(curArticle.ID), now) = 1
             \/ /\ itemTrace' = Append(itemTrace, "mark_err")
                /\ store' = store]_vars
    /\ []<>(pc # "mark")

C23_Witness ==
    /\ pc = "mark"
    /\ cancelled
    /\ itemTrace[Len(itemTrace)] = "publish_ok"
    /\ curArticle.ID \in delivered

\* C24: the search request of FindCrimeArticles has the range clause
\* published_date >= lastCheckTS if and only if the configured lookback is
\* positive; with a lookback of zero (or less) it has no range clause and
\* the watermark is not read.
C24_RangeIffPositiveLookback ==
    /\ lastQuery # NoQuery =>
          /\ (lastQuery.range # <<>>) <=> (lookbackHours > 0)
          /\ lookbackHours > 0 =>
                (lastQuery.range = <<lastCheckTS>> /\ lastCheckTS \in wmReads)
    /\ lookbackHours <= 0 => wmReads = {}

C24_Witness ==
    /\ lastQuery # NoQuery
    /\ lookbackHours = 0
    /\ lastQuery.range = <<>>
    /\ wmReads = {}
    /\ wmWrites = 0
    /\ Len(visited) = NumCities
    /\ lastCheckTS # now

\* C25: whatever the outcome of the diagnostic probe that FindCrimeArticles
\* runs on a total of zero (transport error, error status, undecodable body,
\* success), FindCrimeArticles returns the articles of the search response
\* and no error: ProcessCity goes on with them.
C25_ProbeHasNoEffect ==
    probe # "none" =>
        /\ pc = "item"
        /\ lastQuery # NoQuery
        /\ SearchResponse(index, lastQuery).total = 0
        /\ articles = ArticlesOf(SearchResponse(index, lastQuery).hits)
        /\ cityIdx \notin cityErr
        /\ cityIdx \notin DOMAIN abortedBy

C25_Witness ==
    /\ probe \in {"transport_err", "status_err", "decode_err"}
    /\ pc = "item"
    /\ articles = <<>>
    /\ ~cancelled
    /\ cityIdx \notin cityErr

\* C26: the time-to-live that MarkPosted hands to the store with the key is
\* the configured one, s.config.Service.DedupTTL (one year by default): a
\* record set at instant t expires at t plus the configured time-to-live.
C26_TTLIsConfigured ==
    [][itemTrace' = Append(itemTrace, "mark_ok") =>
          /\ TrackerKey(curArticle.ID) \in DOMAIN store'
          /\ store'[TrackerKey(curArticle.ID)] = now + dedupTTL]_vars

\* C27: for every answer of the destination with a status of 400 or more,
\* its body holding a structured error or not, PostArticle returns an error
\* whatever the token fetch did; ProcessCity counts the article as an error,
\* goes on with the next article and does not call MarkPosted for it: the
\* store is unchanged.
C27_ErrorStatusIsFailure ==
    /\ [](\A csrf \in CsrfOutcomes :
            /\ ~PostArticleOK(csrf, "status_ge_400_parsed")
            /\ ~PostArticleOK(csrf, "status_ge_400_raw"))
    /\ [][(pc = "publish" /\
           sentReq'.resp \in {"status_ge_400_parsed", "status_ge_400_raw"}) =>
             /\ itemTrace' = Append(itemTrace, "publish_err")
             /\ errors' = errors + 1
             /\ posted' = posted
             /\ pc' = "item"
             /\ itemIdx' = itemIdx + 1
             /\ store' = store
             /\ lastMark' = lastMark
             /\ delivered' = delivered]_vars
    /\ [](\A i \in 1..Len(itemTrace) :
            itemTrace[i] = "publish_err" => i = Len(itemTrace))

C27_Witness ==
    /\ sentReq.resp = "status_ge_400_raw"
    /\ sentReq.csrfHeader = TRUE
    /\ itemTrace[Len(itemTrace)] = "publish_err"
    /\ errors = 1
    /\ posted = 0
    /\ pc = "item"
    /\ TrackerKey(articles[itemIdx - 1].ID) \notin DOMAIN store

\* C28: a failed token fetch, whatever its cause, does not fail PostArticle:
\* the creation request is sent all the same, without the X-CSRF-Token
\* header, and PostArticle returns nil or an error by the answer to the
\* creation request alone.
C28_TokenFailureIsNotFatal ==
    /\ [](\A csrf1 \in CsrfOutcomes, csrf2 \in CsrfOutcomes, resp \in PostOutcomes :
            PostArticleOK(csrf1, resp) = PostArticleOK(csrf2, resp))
    /\ [](pc = "publish" =>
            \A csrf \in CsrfOutcomes \ {"token"}, resp \in PostOutcomes :
               LET req == SentRequest(ArticleRequest(curArticle, curCity), csrf, resp)
               IN /\ ~req.csrfHeader
                  /\ req.payload = DrupalArticle(ArticleRequest(curArticle, curCity))
                  /\ req.resp = resp)
    /\ [][(pc = "publish" /\ pc' # "publish") =>
             /\ calls' = calls + 1
             /\ sentReq' # NoReq
             /\ sentReq'.payload = DrupalArticle(ArticleRequest(curArticle, curCity))
             /\ (itemTrace' = Append(itemTrace, "publish_ok")) <=>
                   (sentReq'.resp \in {"status_lt_400_decoded", "status_lt_400_no_id"})
             /\ (itemTrace' = Append(itemTrace, "publish_err")) <=>
                   (sentReq'.resp \notin {"status_lt_400_decoded", "status_lt_400_no_id"})]_vars

C28_Witness ==
    /\ sentReq # NoReq
    /\ sentReq.csrfHeader = FALSE
    /\ sentReq.resp = "status_lt_400_decoded"
    /\ itemTrace[Len(itemTrace)] = "publish_ok"
    /\ pc = "mark"
    /\ calls = 1

\* C29: PostArticle returns nil only for an answer with a status below 400
\* whose body decodes to a document that holds the identifier of the created
\* resource; a success status with a malformed body or with a body without
\* the identifier makes it return an error.
C29_SuccessNeedsIdentifier ==
    [][(pc = "publish" /\ pc' # "publish") =>
          ((itemTrace' = Append(itemTrace, "publish_ok")) <=>
              (sentReq'.resp = "status_lt_400_decoded"))]_vars

\* C30: when config.Load fails (the file cannot be read or parsed, or
\* Validate rejects it) or the store does not answer the ping of NewService,
\* the only step main takes is os.Exit(1): Run is never entered, no city is
\* visited, no search and no creation request is made, the store and the
\* watermark are never written.
C30_StartupFailureExits ==
    /\ []((LoadErr(rawCfg) # "nil" \/ bootEnv = "redis_ping") =>
            /\ pc \in {"boot", "exit_1"}
            /\ runResult = "none"
            /\ visited = <<>>
            /\ lastQuery = NoQuery
            /\ articles = <<>>
            /\ calls = 0
            /\ sentReq = NoReq
            /\ wmWrites = 0
            /\ lastMark = << >>)
    /\ [][(pc = "boot" /\ (LoadErr(rawCfg) # "nil" \/ bootEnv = "redis_ping")) =>
             (pc' = "exit_1" /\ store' = store /\ index' = index)]_vars
    /\ [][pc = "exit_1" => UNCHANGED vars]_vars

C30_Witness ==
    /\ pc = "exit_1"
    /\ LoadErr(rawCfg) = "nil"
    /\ bootEnv = "redis_ping"
    /\ visited = <<>>
    /\ calls = 0

\* C31: there is one bucket, s.limiter, for all cities and articles: every
\* call of PostArticle follows a limiter.Wait of its own that returned nil,
\* and every such return took one token from that bucket, so PostArticle is
\* never called more often than tokens were granted.
C31_PublishNeedsToken ==
    /\ [](/\ tokens \in 0..RateLimitRPS
          /\ calls <= grants
          /\ pc = "publish" => grants = calls + 1
          /\ pc # "publish" => grants = calls)
    /\ [][grants' = grants + 1 =>
             /\ pc = "throttle"
             /\ tokens > 0
             /\ tokens' = tokens - 1
             /\ pc' = "publish"]_vars
    /\ [][calls' = calls + 1 =>
             /\ pc = "publish"
             /\ itemTrace[Len(itemTrace)] = "throttle_ok"
             /\ grants' = grants]_vars
    /\ [][tokens' < tokens => grants' = grants + 1]_vars

C31_Witness ==
    /\ cityIdx = NumCities
    /\ pc = "mark"
    /\ calls = 1
    /\ grants = 1
    /\ tokens = RateLimitRPS - 1
    /\ prevPass.delivered # {}

\* C32: Run starts its first cycle at once, without receiving a tick; every
\* later cycle starts by receiving one tick at the select, and every tick
\* received starts one cycle; no cycle starts while another one is running;
\* within a cycle ProcessCity runs for one city at a time, in configured
\* order.
C32_OneCycleAtStartAndPerTick ==
    /\ [][(pc = "run" /\ pc' # "run") =>
             /\ pc' = "city" /\ cityIdx' = 1 /\ visited' = <<>>
             /\ ~tickPending /\ ~tickPending']_vars
    /\ [][(pc' = "city" /\ cityIdx' = 1 /\ ~(pc = "city" /\ cityIdx = 1)) =>
             \/ pc = "run"
             \/ pc = "select" /\ tickPending /\ ~tickPending']_vars
    /\ [][(tickPending /\ ~tickPending') =>
             /\ pc = "select"
             /\ pc' = "city" /\ cityIdx' = 1 /\ visited' = <<>>]_vars
    /\ [](InCycle =>
            /\ visited = [i \in 1..Len(visited) |-> i]
            /\ Len(visited) <= NumCities
            /\ (pc = "fetch" \/ InPass) => cityIdx = Len(visited)
            /\ pc = "city" => cityIdx = Len(visited) + 1
            /\ pc = "watermark" => Len(visited) = NumCities)

C32_Witness ==
    /\ pc = "fetch"
    /\ cityIdx = NumCities
    /\ visited = [i \in 1..NumCities |-> i]
    /\ prevPass.ran
    /\ ~tickPending
    /\ ~cancelled
    /\ lookbackHours = 1
    /\ lastCheckTS = now

\* C33: the watermark lock is never held across a blocking call.  The read
\* lock is held only while getLastCheckTS copies the watermark and the write
\* lock only while runOnce assigns it: the lock is free when
\* FindCrimeArticles calls the search backend, and free at every position of
\* the Run goroutine, so at each call of the search backend, the store, the
\* limiter and the publishing client; a step changes the watermark only
\* from a free lock and leaves it free.
C33_LockNotHeldAcrossCalls ==
    /\ [](mu = MuFree /\ muAtCall = MuFree)
    /\ [][lastCheckTS' # lastCheckTS =>
             /\ pc = "watermark"
             /\ Lock(mu).writer /\ Lock(mu).readers = 0
             /\ mu' = MuFree]_vars
    /\ [][(pc = "fetch" /\ lookbackHours > 0) =>
             /\ getLastCheckTS(mu, lastCheckTS).held = [readers |-> 1, writer |-> FALSE]
             /\ getLastCheckTS(mu, lastCheckTS).value = lastCheckTS
             /\ mu' = MuFree /\ muAtCall' = MuFree]_vars

\* the second cycle publishes an article: the write lock was taken at the end
\* of the first cycle, the read lock by the query of this pass
C33_Witness ==
    /\ pc = "publish"
    /\ lookbackHours = 1
    /\ lastCheckTS = now
    /\ wmReads = {now}
    /\ lastQuery.range = <<now>>
    /\ mu = MuFree

\* the identifier FindCrimeArticles gives the article of document d
C34_IdentifierOf(d) ==
    IF DocSourceID(d) # EmptyID THEN DocSourceID(d) ELSE DocRowID(d)

\* C34: every article FindCrimeArticles returned has a non-empty identifier:
\* the id its document carries, or the row id the backend gave the document
\* when it carries none.  The duplicate check answers by the record kept
\* under exactly this identifier, and a successful mark writes the record of
\* exactly this identifier and touches no other.
C34_IdentifierFallback ==
    /\ [](InPass =>
            \A i \in 1..Len(articles) :
               /\ articles[i].ID # EmptyID
               /\ \E e \in index[lastQuery.target] :
                     /\ articles[i].ID = C34_IdentifierOf(e.doc)
                     /\ articles[i].Title = DocTitle(e.doc)
                     /\ articles[i].Content = DocBody(e.doc)
                     /\ articles[i].PublishedAt = e.published)
    /\ [][(pc = "dedup" /\ pc' # "dedup") =>
             LET k == TrackerKey(curArticle.ID)
                 out == itemTrace'[Len(itemTrace')]
             IN /\ out = "dedup_hit" => StoreExists(store, k, now) = 1
                /\ out = "dedup_miss" => StoreExists(store, k, now) = 0]_vars
    /\ [][(pc = "mark" /\ pc' # "mark") =>
             LET k == TrackerKey(curArticle.ID)
                 out == itemTrace'[Len(itemTrace')]
             IN /\ out = "mark_ok" =>
                      /\ DOMAIN store' = DOMAIN store \cup {k}
                      /\ store'[k] > now
                      /\ \A x \in DOMAIN store \ {k} : store'[x] = store[x]
                /\ out = "mark_err" => store' = store]_vars

\* a pass fetched a document without an id of its own and one with its own
\* id; the first was published and marked under its row id
C34_Witness ==
    /\ pc = "item"
    /\ Len(articles) = 2
    /\ {articles[i].ID : i \in 1..2} = {DocRowID(1), DocSourceID(2)}
    /\ itemIdx > 1
    /\ articles[itemIdx - 1].ID = DocRowID(1)
    /\ itemTrace = <<"filter_ok", "dedup_miss", "throttle_ok", "publish_ok", "mark_ok">>
    /\ TrackerKey(DocRowID(1)) \in DOMAIN store

\* C35: the creation endpoint is derived from the content-type label: a
\* request sent for the label "node--article" goes to
\* <base>/jsonapi/node/article, and a request sent for any other label
\* "node--X" goes to <base>/jsonapi/node/X.
C35_EndpointFromLabel ==
    sentReq.resp # "none" =>
       /\ contentType = NodeArticle =>
             sentReq.endpoint = <<"base", "/jsonapi/node/",
                                  <<"a", "r", "t", "i", "c", "l", "e">> >>
       /\ (/\ contentType # NodeArticle
           /\ Len(contentType) > 6
           /\ SubSeq(contentType, 1, 6) = <<"n", "o", "d", "e", "-", "-">>) =>
             sentReq.endpoint = <<"base", "/jsonapi/node/",
                                  SubSeq(contentType, 7, Len(contentType))>>

\* the target the configuration of city c resolves to
C36_TargetOf(c) ==
    IF CityConfig(c).Index # <<>> THEN CityConfig(c).Index
    ELSE <<"city", c, "_articles">>

\* C36: the query target of a city is its index override when it has one and
\* its name followed by "_articles" otherwise.  It depends on the city's
\* configuration alone: in every pass of every cycle the main query of a
\* city and its diagnostic probe, when it runs, go to that one target.
C36_TargetFromCityConfig ==
    /\ [](lastQuery # NoQuery => lastQuery.target = C36_TargetOf(cityIdx))
    /\ [](probe # "none" =>
            /\ lastQuery # NoQuery
            /\ probeQuery.target = C36_TargetOf(cityIdx)
            /\ probeQuery.target = lastQuery.target)
    /\ [][(pc = "fetch" /\ pc' = "item") =>
             /\ lastQuery' # NoQuery
             /\ cityIdx' = cityIdx
             /\ probe' # "none" <=>
                   (Matches(index[lastQuery'.target], lastQuery') = {}
                    /\ Len(keywords) > 0)]_vars

\* in a later cycle the query of the city with an index override found
\* nothing and the probe ran, after a city without override was queried
C36_Witness ==
    /\ pc = "item"
    /\ cityIdx = 2
    /\ CityConfig(1).Index = <<>>
    /\ lastQuery.target = <<"override", 2>>
    /\ probe # "none"
    /\ probeQuery.target = <<"override", 2>>
    /\ 1 \in reported

\* C37: a pass that completes without a fetch or throttle error has counted
\* every fetched article in exactly one of posted, skipped and errors:
\* posted + skipped + errors is the number of fetched articles, and posted is
\* the number of creation requests that returned no error.  During the pass
\* the three counters add up to the number of articles gone through, every
\* call of PostArticle is either a failure counted in errors or a success,
\* and each step adds one to at most one counter.
C37_CountersAccountForEveryItem ==
    /\ [](InPass =>
            /\ posted + skipped + errors = itemIdx - 1
            /\ calls = errors + Cardinality(delivered)
            /\ Cardinality(delivered) = posted + (IF pc = "mark" THEN 1 ELSE 0))
    /\ [][(InPass /\ pc' = "city" /\ cityErr' = cityErr) =>
             /\ posted + skipped + errors = Len(articles)
             /\ posted = Cardinality(delivered)
             /\ posted = calls - errors]_vars
    /\ [][(InPass /\ pc' # "city") =>
             /\ (posted' - posted) + (skipped' - skipped) + (errors' - errors)
                   = itemIdx' - itemIdx
             /\ itemIdx' - itemIdx \in {0, 1}
             /\ posted' >= posted /\ skipped' >= skipped /\ errors' >= errors]_vars

\* a pass is about to complete having published one of its two articles and
\* skipped the other
C37_Witness ==
    /\ pc = "item"
    /\ Len(articles) = 2
    /\ itemIdx = 3
    /\ posted = 1
    /\ skipped = 1
    /\ errors = 0
    /\ calls = 1

\* a step of ProcessCity in which MarkPosted returned an error
C38_MarkFailed ==
    /\ pc = "mark"
    /\ itemTrace' # itemTrace
    /\ itemTrace'[Len(itemTrace')] = "mark_err"

\* what ProcessCity does with a failure of MarkPosted: the article is
\* counted as posted and as nothing else, the loop goes on with the next
\* article, no error is returned for the city
C38_FailureIsNotCounted ==
    /\ posted' = posted + 1
    /\ errors' = errors
    /\ skipped' = skipped
    /\ pc' = "item"
    /\ itemIdx' = itemIdx + 1
    /\ articles' = articles
    /\ cityIdx' = cityIdx
    /\ cityErr' = cityErr

\* a pass whose last article met a failure of MarkPosted returns nil
C38_PassReturnsNil ==
    (/\ pc = "item"
     /\ pc' # "item"
     /\ itemIdx > Len(articles)
     /\ itemTrace # <<>>
     /\ itemTrace[Len(itemTrace)] = "mark_err") =>
       /\ pc' = "city"
       /\ cityIdx' = cityIdx + 1
       /\ cityErr' = cityErr
       /\ cityIdx \in reported'

\* C38 as stated: when MarkPosted fails after a successful publish, the article
\* is counted as posted, no failure is counted, the remaining articles are
\* processed and the pass returns nil; the identifier of the article is then
\* absent from the ledger.
C38_MarkFailureLeavesNoRecord ==
    [][/\ C38_MarkFailed =>
             /\ C38_FailureIsNotCounted
             /\ StoreExists(store', TrackerKey(curArticle.ID), now) = 0
       /\ C38_PassReturnsNil]_vars

\* C38, amended: when MarkPosted fails after a successful publish, the article
\* is counted as posted, no failure is counted, the remaining articles are
\* processed and the pass returns nil; the ledger is left as it was, so the
\* identifier is absent from it unless it held a live record that the
\* duplicate check did not see because the existence query failed.
C38_MarkFailureLeavesLedgerAsItWas ==
    [][/\ C38_MarkFailed =>
             /\ C38_FailureIsNotCounted
             /\ store' = store
             /\ StoreExists(store', TrackerKey(curArticle.ID), now) = 1 =>
                   itemTrace[2] = "dedup_err"
             /\ itemTrace[2] = "dedup_miss" =>
                   StoreExists(store', TrackerKey(curArticle.ID), now) = 0
       /\ C38_PassReturnsNil]_vars

\* MarkPosted has failed for an article published in a pass of two articles:
\* it is counted as posted, no failure is counted, it has no record in the
\* ledger, and the loop is back at its head
C38_Witness ==
    /\ pc = "item"
    /\ Len(articles) = 2
    /\ itemTrace = <<"filter_ok", "dedup_miss", "throttle_ok", "publish_ok", "mark_err">>
    /\ posted = 1
    /\ skipped = 1
    /\ errors = 0
    /\ StoreExists(store, TrackerKey(articles[itemIdx - 1].ID), now) = 0

====
